---- MODULE Spec2Model ----
(***************************************************************************)
(* Ligand-field engine of the TanabeSugano package: the shared matrix      *)
(* builder and eigensolver, the block tables and solver() of the seven      *)
(* configurations d2..d8, and the sweeps that evaluate them.                *)
(*                                                                         *)
(* Numbers.  The parameters Dq, B, C and every energy are integers in one   *)
(* model unit (a fixed-point reading of the float64 values).  A matrix      *)
(* entry is kept exactly, as the surd n*sqrt(rad)/den, because the          *)
(* off-diagonal couplings carry the module constants sqrt(2), sqrt(3) and   *)
(* sqrt(6).  The eigenvalue routine (numpy.linalg.eigh) is a library call:  *)
(* it is modelled by what it returns, see eigensolver.                      *)
(***************************************************************************)
EXTENDS Integers, Sequences, FiniteSets, TLC

VARIABLES
  lapack,   \* the behaviour of the eigenvalue routine, fixed for a run
  inst,     \* inst[e]: the instance of evaluation e: its class and fields Dq, B, C
  call,     \* call[e]: control state of the solver() call of evaluation e
  heap,     \* heap[f]: the local arrays of the solver() call that owns frame f
  cmArgs,   \* arguments of a direct construct_matrix call
  cmOut,    \* its outcome
  eig,      \* a direct eigensolver call: the matrix passed, a copy of it, the outcome
  batch,    \* the Batch object of the sweep driver
  cmd       \* the CMDmain object of the command-line driver

vars == <<lapack, inst, call, heap, cmArgs, cmOut, eig, batch, cmd>>

(***************************************************************************)
(* Bounds of the model.                                                    *)
(***************************************************************************)
MaxDq == 2
MaxB == 2
MaxC == 4
MaxRepel == 1
MaxN == 3
(***************************************************************************)
(* constants.py: the threshold of the d6 correction, 1e-4 cm-1.  The model  *)
(* unit is 4e-6 cm-1, so that energies below the threshold are integers.    *)
(***************************************************************************)
ENERGY_TOLERANCE == 25

Configs == 2..8
Evals == 1..2

(***************************************************************************)
(* Exact matrix entries: n*sqrt(rad)/den.  A product with a zero factor is  *)
(* the float 0.0 whatever the constant it multiplies.                       *)
(***************************************************************************)
Surd(k, m, d) ==
  IF k = 0 THEN [n |-> 0, rad |-> 1, den |-> 1] ELSE [n |-> k, rad |-> m, den |-> d]

R(x) == Surd(x, 1, 1)

RECURSIVE SqrtSearch(_, _, _)
SqrtSearch(x, lo, hi) ==
  \* the largest r in lo..hi with r*r <= x
  IF lo = hi THEN lo
  ELSE LET mid == (lo + hi + 1) \div 2
       IN IF mid * mid <= x THEN SqrtSearch(x, mid, hi) ELSE SqrtSearch(x, lo, mid - 1)

\* 46340 is the largest root of a 32-bit integer
SqrtFloor(x) == SqrtSearch(x, 0, 46340)

SqrtCeil(x) == LET r == SqrtFloor(x) IN IF r * r = x THEN r ELSE r + 1

\* floor of the value of a surd, the float an entry is stored as
Approx(x) ==
  IF x.rad = 1 THEN x.n \div x.den
  ELSE IF x.n >= 0 THEN SqrtFloor(x.n * x.n * x.rad) \div x.den
  ELSE 0 - ((SqrtCeil(x.n * x.n * x.rad) + x.den - 1) \div x.den)

(***************************************************************************)
(* Outcome of a call: a value, or the exception it raises.                  *)
(***************************************************************************)
Ok(v) == [exc |-> "none", val |-> v]
Raise(x) == [exc |-> x, val |-> <<>>]

(***************************************************************************)
(* LigandFieldTheory.construct_matrix.  A matrix is a sequence of rows;     *)
(* Python's index i is position i + 1.  off_diag_elements is the dict's     *)
(* items in insertion order, each <<i, j, value>>.  numpy wraps a negative  *)
(* index -k to size - k and raises IndexError outside -size..size-1.        *)
(***************************************************************************)
Wrap(i, size) == IF i < 0 THEN i + size ELSE i

InRange(i, size) == i >= 0 - size /\ i < size

\* the cells matrix[i, j] and matrix[j, i] that the k-th item assigns
Keys(items, size) ==
  [k \in 1..Len(items) |->
     <<Wrap(items[k][1], size), Wrap(items[k][2], size)>>]

\* variant without the mirrored assignment matrix[j, i] = value
WritersOneWay(keys, a, b) == {k \in DOMAIN keys : keys[k] = <<a, b>>}

\* variant that mirrors only the keys of the upper triangle
WritersUpper(keys, a, b) ==
  {k \in DOMAIN keys : keys[k] = <<a, b>> \/ (keys[k] = <<b, a>> /\ b < a)}

\* the items that write cell (a, b)
Writers(keys, a, b) ==
  {k \in DOMAIN keys : keys[k] = <<a, b>> \/ keys[k] = <<b, a>>}

Last(S) == CHOOSE k \in S : \A m \in S : m <= k

\* the loop over off_diag_elements.items(): a cell keeps the value written last
Cell(diag_elements, items, keys, a, b) ==
  LET w == Writers(keys, a, b)
  IN IF w # {} THEN items[Last(w)][3]
     ELSE IF a = b THEN diag_elements[a + 1] ELSE R(0)

construct_matrix(diag_elements, off_diag_elements) ==
  LET size == Len(diag_elements)
      keys == Keys(off_diag_elements, size)
  IN IF \E k \in 1..Len(off_diag_elements) :
          ~(InRange(off_diag_elements[k][1], size) /\ InRange(off_diag_elements[k][2], size))
     THEN Raise("IndexError")
     ELSE Ok([i \in 1..size |->
               [j \in 1..size |->
                  Cell(diag_elements, off_diag_elements, keys, i - 1, j - 1)]])

(***************************************************************************)
(* LigandFieldTheory.eigensolver: eigh(matrix)[0].  eigh is deterministic,  *)
(* returns len(matrix) values in ascending order, or raises LinAlgError     *)
(* when the iteration does not converge.  What it returns is modelled by    *)
(* three cases:                                                            *)
(*  - a diagonal matrix has its sorted diagonal as spectrum;               *)
(*  - a 2x2 matrix [[a, b], [b, d]] has (a + d -+ sqrt((a-d)^2 + 4b^2))/2,  *)
(*    each rounded down to the unit;                                       *)
(*  - a larger coupled matrix has a spectrum that majorises its diagonal    *)
(*    (Schur-Horn): the sorted diagonal with the lowest level pushed down   *)
(*    and the highest pushed up by lapack.repel.                            *)
(* lapack.diverge is the dimension on which the routine fails to converge   *)
(* (0: it always converges).  lapack is chosen once and never changes.      *)
(* The method checks nothing itself: eigh raises LinAlgError for an array    *)
(* that is not square, and of a square one it reads the lower triangle.     *)
(***************************************************************************)
Diagonal(matrix) == [i \in 1..Len(matrix) |-> Approx(matrix[i][i])]

\* eigh reads the lower triangle only (UPLO = 'L')
IsDiagonal(matrix) ==
  \A i, j \in 1..Len(matrix) : j < i => matrix[i][j].n = 0

IsSquare(matrix) == \A i \in 1..Len(matrix) : Len(matrix[i]) = Len(matrix)

\* variant that leaves the values in the order of the diagonal
AscendingSkipped(s) == s

Ascending(s) == SortSeq(s, LAMBDA x, y : x < y)

Closed2x2(matrix) ==
  LET a == Approx(matrix[1][1])
      d == Approx(matrix[2][2])
      b == matrix[2][1]
      disc == (a - d) * (a - d) * b.den * b.den + 4 * b.n * b.n * b.rad
  IN << ((a + d) * b.den - SqrtCeil(disc)) \div (2 * b.den),
        ((a + d) * b.den + SqrtFloor(disc)) \div (2 * b.den) >>

Spread(s, r) ==
  [i \in 1..Len(s) |->
     IF i = 1 THEN s[i] - r ELSE IF i = Len(s) THEN s[i] + r ELSE s[i]]

\* variant whose result depends on the calls made before: the routine keeps a
\* workspace between calls
eigensolverWarm(matrix) ==
  LET size == Len(matrix)
      warm == Cardinality({e \in DOMAIN call : call[e].status \in {"returned", "raised"}})
  IN IF ~IsSquare(matrix) THEN Raise("LinAlgError")
     ELSE IF lapack.diverge = size THEN Raise("LinAlgError")
     ELSE IF IsDiagonal(matrix) THEN Ok(Ascending(Diagonal(matrix)))
     ELSE IF size = 2 THEN Ok(Closed2x2(matrix))
     ELSE Ok(Spread(Ascending(Diagonal(matrix)), lapack.repel + warm))

eigensolver(matrix) ==
  LET size == Len(matrix)
  IN IF ~IsSquare(matrix) THEN Raise("LinAlgError")
     ELSE IF lapack.diverge = size THEN Raise("LinAlgError")
     ELSE IF IsDiagonal(matrix) THEN Ok(Ascending(Diagonal(matrix)))
     ELSE IF size = 2 THEN Ok(Closed2x2(matrix))
     ELSE Ok(Spread(Ascending(Diagonal(matrix)), lapack.repel))

\* a block builder's last two lines: construct the matrix, return its spectrum
states(block) ==
  LET m == construct_matrix(block.diag, block.off)
  IN IF m.exc # "none" THEN m ELSE eigensolver(m.val)

d2_A_1_1(Dq, B, C) ==
  [ diag |-> <<
      R(-8*Dq + 10*B + 5*C),
      R(12*Dq + 8*B + 4*C)
    >>,
    off |-> <<
      <<0, 1, Surd(2*B + C, 6, 1)>>
    >> ]

d2_E_1(Dq, B, C) ==
  [ diag |-> <<
      R(-8*Dq + B + 2*C),
      R(12*Dq + 2*C)
    >>,
    off |-> <<
      <<0, 1, Surd(-2*B, 3, 1)>>
    >> ]

d2_T_1_2(Dq, B, C) ==
  [ diag |-> <<
      R(-8*Dq + B + 2*C),
      R(2*Dq + 2*C)
    >>,
    off |-> <<
      <<0, 1, Surd(2*B, 3, 1)>>
    >> ]

d2_T_3_1(Dq, B, C) ==
  [ diag |-> <<
      R(-8*Dq - 5*B),
      R(2*Dq + 4*B)
    >>,
    off |-> <<
      <<0, 1, R(6*B)>>
    >> ]

d3_T_2_2(Dq, B, C) ==
  [ diag |-> <<
      R(-12*Dq + 5*C),
      R(-2*Dq - 6*B + 3*C),
      R(-2*Dq + 4*B + 3*C),
      R(8*Dq + 6*B + 5*C),
      R(8*Dq - 2*B + 3*C)
    >>,
    off |-> <<
      <<0, 1, Surd(-3*B, 3, 1)>>,
      <<0, 2, Surd(-5*B, 3, 1)>>,
      <<0, 3, R(4*B + 2*C)>>,
      <<0, 4, R(2*B)>>,
      <<1, 2, R(3*B)>>,
      <<1, 3, Surd(-3*B, 3, 1)>>,
      <<1, 4, Surd(-3*B, 3, 1)>>,
      <<2, 3, Surd(-B, 3, 1)>>,
      <<2, 4, Surd(B, 3, 1)>>,
      <<3, 4, R(10*B)>>
    >> ]

d3_T_2_1(Dq, B, C) ==
  [ diag |-> <<
      R(-12*Dq - 6*B + 3*C),
      R(-2*Dq + 3*C),
      R(-2*Dq - 6*B + 3*C),
      R(8*Dq - 6*B + 3*C),
      R(8*Dq - 2*B + 3*C)
    >>,
    off |-> <<
      <<0, 1, R(-3*B)>>,
      <<0, 2, R(3*B)>>,
      <<0, 3, R(0)>>,
      <<0, 4, Surd(-2*B, 3, 1)>>,
      <<1, 2, R(-3*B)>>,
      <<1, 3, R(3*B)>>,
      <<1, 4, Surd(3*B, 3, 1)>>,
      <<2, 3, R(-3*B)>>,
      <<2, 4, Surd(-B, 3, 1)>>,
      <<3, 4, Surd(2*B, 3, 1)>>
    >> ]

d3_E_2(Dq, B, C) ==
  [ diag |-> <<
      R(-12*Dq - 6*B + 3*C),
      R(-2*Dq + 8*B + 6*C),
      R(-2*Dq - B + 3*C),
      R(18*Dq - 8*B + 4*C)
    >>,
    off |-> <<
      <<0, 1, Surd(-6*B, 2, 1)>>,
      <<0, 2, Surd(-3*B, 2, 1)>>,
      <<0, 3, R(0)>>,
      <<1, 2, R(10*B)>>,
      <<1, 3, Surd(2*B + C, 3, 1)>>,
      <<2, 3, Surd(2*B, 3, 1)>>
    >> ]

d3_T_4_1(Dq, B, C) ==
  [ diag |-> <<
      R(-2*Dq - 3*B),
      R(8*Dq - 12*B)
    >>,
    off |-> <<
      <<0, 1, R(6*B)>>
    >> ]

d4_T_3_1(Dq, B, C) ==
  [ diag |-> <<
      R(-16*Dq - 15*B + 5*C),
      R(-6*Dq - 11*B + 4*C),
      R(-6*Dq - 3*B + 6*C),
      R(4*Dq - B + 6*C),
      R(4*Dq - 9*B + 4*C),
      R(4*Dq - 11*B + 4*C),
      R(14*Dq - 16*B + 5*C)
    >>,
    off |-> <<
      <<0, 1, Surd(-B, 6, 1)>>,
      <<0, 2, Surd(-3*B, 2, 1)>>,
      <<0, 3, Surd(2*B + C, 2, 1)>>,
      <<0, 4, Surd(-2*B, 2, 1)>>,
      <<0, 5, R(0)>>,
      <<0, 6, R(0)>>,
      <<1, 2, Surd(5*B, 3, 1)>>,
      <<1, 3, Surd(B, 3, 1)>>,
      <<1, 4, Surd(-B, 3, 1)>>,
      <<1, 5, R(3*B)>>,
      <<1, 6, Surd(B, 6, 1)>>,
      <<2, 3, R(-3*B)>>,
      <<2, 4, R(-3*B)>>,
      <<2, 5, Surd(5*B, 3, 1)>>,
      <<2, 6, Surd(B + C, 2, 1)>>,
      <<3, 4, R(-10*B)>>,
      <<3, 5, R(0)>>,
      <<3, 6, Surd(3*B, 2, 1)>>,
      <<4, 5, Surd(-2*B, 3, 1)>>,
      <<4, 6, Surd(-3*B, 2, 1)>>,
      <<5, 6, Surd(B, 6, 1)>>
    >> ]

d4_T_1_2(Dq, B, C) ==
  [ diag |-> <<
      R(-16*Dq - 9*B + 7*C),
      R(-6*Dq - 9*B + 6*C),
      R(-6*Dq + 3*B + 8*C),
      R(4*Dq - 9*B + 6*C),
      R(4*Dq - 3*B + 6*C),
      R(4*Dq + 5*B + 8*C),
      R(14*Dq + 7*C)
    >>,
    off |-> <<
      <<0, 1, Surd(3*B, 2, 1)>>,
      <<0, 2, Surd(-5*B, 6, 1)>>,
      <<0, 3, R(0)>>,
      <<0, 4, Surd(-2*B, 2, 1)>>,
      <<0, 5, Surd(2*B + C, 2, 1)>>,
      <<0, 6, R(0)>>,
      <<1, 2, Surd(-5*B, 3, 1)>>,
      <<1, 3, R(3*B)>>,
      <<1, 4, R(-3*B)>>,
      <<1, 5, R(-3*B)>>,
      <<1, 6, Surd(-B, 6, 1)>>,
      <<2, 3, Surd(-3*B, 3, 1)>>,
      <<2, 4, Surd(5*B, 3, 1)>>,
      <<2, 5, Surd(-5*B, 3, 1)>>,
      <<2, 6, Surd(3*B + C, 2, 1)>>,
      <<3, 4, R(-6*B)>>,
      <<3, 5, R(0)>>,
      <<3, 6, Surd(-3*B, 6, 1)>>,
      <<4, 5, R(-10*B)>>,
      <<4, 6, Surd(B, 6, 1)>>,
      <<5, 6, Surd(B, 6, 1)>>
    >> ]

d4_A_1_1(Dq, B, C) ==
  [ diag |-> <<
      R(-16*Dq + 10*C),
      R(-6*Dq + 6*C),
      R(4*Dq + 14*B + 11*C),
      R(4*Dq - 3*B + 6*C),
      R(24*Dq - 16*B + 8*C)
    >>,
    off |-> <<
      <<0, 1, Surd(-12*B, 2, 1)>>,
      <<0, 2, Surd(4*B + 2*C, 2, 1)>>,
      <<0, 3, Surd(2*B, 2, 1)>>,
      <<0, 4, R(0)>>,
      <<1, 2, R(-12*B)>>,
      <<1, 3, R(-6*B)>>,
      <<1, 4, R(0)>>,
      <<2, 3, R(20*B)>>,
      <<2, 4, Surd(2*B + C, 6, 1)>>,
      <<3, 4, Surd(2*B, 6, 1)>>
    >> ]

d4_E_1_1(Dq, B, C) ==
  [ diag |-> <<
      R(-16*Dq - 9*B + 7*C),
      R(-6*Dq - 6*B + 6*C),
      R(4*Dq + 5*B + 8*C),
      R(4*Dq + 6*B + 9*C),
      R(4*Dq - 3*B + 6*C)
    >>,
    off |-> <<
      <<0, 1, R(6*B)>>,
      <<0, 2, Surd(2*B + C, 2, 1)>>,
      <<0, 3, R(-2*B)>>,
      <<0, 4, R(-4*B)>>,
      <<1, 2, Surd(-3*B, 2, 1)>>,
      <<1, 3, R(-12*B)>>,
      <<1, 4, R(0)>>,
      <<2, 3, Surd(10*B, 2, 1)>>,
      <<2, 4, Surd(-10*B, 2, 1)>>,
      <<3, 4, R(0)>>
    >> ]

d4_T_3_2(Dq, B, C) ==
  [ diag |-> <<
      R(-6*Dq - 9*B + 4*C),
      R(-6*Dq - 5*B + 6*C),
      R(4*Dq - 13*B + 4*C),
      R(4*Dq - 9*B + 4*C),
      R(14*Dq - 8*B + 5*C)
    >>,
    off |-> <<
      <<0, 1, Surd(-5*B, 3, 1)>>,
      <<0, 2, Surd(B, 6, 1)>>,
      <<0, 3, Surd(B, 3, 1)>>,
      <<0, 4, Surd(-B, 6, 1)>>,
      <<1, 2, Surd(-3*B, 2, 1)>>,
      <<1, 3, R(3*B)>>,
      <<1, 4, Surd(3*B + C, 2, 1)>>,
      <<2, 3, Surd(-2*B, 2, 1)>>,
      <<2, 4, R(-6*B)>>,
      <<3, 4, Surd(3*B, 2, 1)>>
    >> ]

d4_T_1_1(Dq, B, C) ==
  [ diag |-> <<
      R(-6*Dq - 3*B + 6*C),
      R(-6*Dq - 3*B + 8*C),
      R(4*Dq - 3*B + 6*C),
      R(14*Dq - 16*B + 7*C)
    >>,
    off |-> <<
      <<0, 1, Surd(5*B, 3, 1)>>,
      <<0, 2, R(3*B)>>,
      <<0, 3, Surd(B, 6, 1)>>,
      <<1, 2, Surd(-5*B, 3, 1)>>,
      <<1, 3, Surd(B + C, 2, 1)>>,
      <<2, 3, Surd(-B, 6, 1)>>
    >> ]

d4_E_3_1(Dq, B, C) ==
  [ diag |-> <<
      R(-6*Dq - 13*B + 4*C),
      R(-6*Dq - 10*B + 4*C),
      R(4*Dq - 11*B + 4*C)
    >>,
    off |-> <<
      <<0, 1, R(-4*B)>>,
      <<0, 2, R(0)>>,
      <<1, 2, Surd(-3*B, 2, 1)>>
    >> ]

d4_A_3_2(Dq, B, C) ==
  [ diag |-> <<
      R(-6*Dq - 8*B + 4*C),
      R(4*Dq - 2*B + 7*C)
    >>,
    off |-> <<
      <<0, 1, R(-12*B)>>
    >> ]

d4_A_1_2(Dq, B, C) ==
  [ diag |-> <<
      R(-6*Dq - 12*B + 6*C),
      R(4*Dq - 3*B + 6*C)
    >>,
    off |-> <<
      <<0, 1, R(6*B)>>
    >> ]

d5_T_2_2(Dq, B, C) ==
  [ diag |-> <<
      R(-20*Dq - 20*B + 10*C),
      R(-10*Dq - 8*B + 9*C),
      R(-10*Dq - 18*B + 9*C),
      R(-16*B + 8*C),
      R(-12*B + 8*C),
      R(2*B + 12*C),
      R(-6*B + 10*C),
      R(10*Dq - 18*B + 9*C),
      R(10*Dq - 8*B + 9*C),
      R(20*Dq - 20*B + 10*C)
    >>,
    off |-> <<
      <<0, 1, Surd(3*B, 6, 1)>>,
      <<0, 2, Surd(B, 6, 1)>>,
      <<0, 3, R(0)>>,
      <<0, 4, Surd(-2*B, 3, 1)>>,
      <<0, 5, R(4*B + 2*C)>>,
      <<0, 6, R(2*B)>>,
      <<0, 7, R(0)>>,
      <<0, 8, R(0)>>,
      <<0, 9, R(0)>>,
      <<1, 2, R(3*B)>>,
      <<1, 3, Surd(B, 6, 2)>>,
      <<1, 4, Surd(-3*B, 2, 2)>>,
      <<1, 5, Surd(3*B, 6, 2)>>,
      <<1, 6, Surd(3*B, 6, 2)>>,
      <<1, 7, R(0)>>,
      <<1, 8, R(4*B + C)>>,
      <<1, 9, R(0)>>,
      <<2, 3, Surd(3*B, 6, 2)>>,
      <<2, 4, Surd(-3*B, 2, 2)>>,
      <<2, 5, Surd(5*B, 6, 2)>>,
      <<2, 6, Surd(-5*B, 6, 2)>>,
      <<2, 7, R(C)>>,
      <<2, 8, R(0)>>,
      <<2, 9, R(0)>>,
      <<3, 4, Surd(2*B, 3, 1)>>,
      <<3, 5, R(0)>>,
      <<3, 6, R(0)>>,
      <<3, 7, Surd(-3*B, 6, 2)>>,
      <<3, 8, Surd(-B, 6, 2)>>,
      <<3, 9, R(0)>>,
      <<4, 5, Surd(-10*B, 3, 1)>>,
      <<4, 6, R(0)>>,
      <<4, 7, Surd(3*B, 2, 2)>>,
      <<4, 8, Surd(3*B, 2, 2)>>,
      <<4, 9, Surd(-2*B, 3, 1)>>,
      <<5, 6, R(0)>>,
      <<5, 7, Surd(-5*B, 6, 2)>>,
      <<5, 8, Surd(-3*B, 6, 2)>>,
      <<5, 9, R(4*B + 2*C)>>,
      <<6, 7, Surd(-5*B, 6, 2)>>,
      <<6, 8, Surd(3*B, 6, 2)>>,
      <<6, 9, R(-2*B)>>,
      <<7, 8, R(3*B)>>,
      <<7, 9, Surd(-B, 6, 1)>>,
      <<8, 9, Surd(-3*B, 6, 1)>>
    >> ]

d5_T_2_1(Dq, B, C) ==
  [ diag |-> <<
      R(-10*Dq - 22*B + 9*C),
      R(-10*Dq - 8*B + 9*C),
      R(-4*B + 10*C),
      R(-12*B + 8*C),
      R(-10*B + 10*C),
      R(-6*B + 10*C),
      R(10*Dq - 8*B + 9*C),
      R(10*Dq - 22*B + 9*C)
    >>,
    off |-> <<
      <<0, 1, R(-3*B)>>,
      <<0, 2, Surd(-3*B, 2, 2)>>,
      <<0, 3, Surd(3*B, 2, 2)>>,
      <<0, 4, Surd(-3*B, 2, 2)>>,
      <<0, 5, Surd(-3*B, 6, 2)>>,
      <<0, 6, R(0)>>,
      <<0, 7, R(C)>>,
      <<1, 2, Surd(3*B, 2, 2)>>,
      <<1, 3, Surd(3*B, 2, 2)>>,
      <<1, 4, Surd(15*B, 2, 2)>>,
      <<1, 5, Surd(5*B, 6, 2)>>,
      <<1, 6, R(4*B + C)>>,
      <<1, 7, R(0)>>,
      <<2, 3, R(0)>>,
      <<2, 4, R(0)>>,
      <<2, 5, Surd(10*B, 3, 1)>>,
      <<2, 6, Surd(3*B, 2, 2)>>,
      <<2, 7, Surd(-3*B, 2, 2)>>,
      <<3, 4, R(0)>>,
      <<3, 5, R(0)>>,
      <<3, 6, Surd(-3*B, 2, 2)>>,
      <<3, 7, Surd(-3*B, 2, 2)>>,
      <<4, 5, Surd(2*B, 3, 1)>>,
      <<4, 6, Surd(15*B, 2, 2)>>,
      <<4, 7, Surd(-3*B, 2, 2)>>,
      <<5, 6, Surd(5*B, 6, 2)>>,
      <<5, 7, Surd(-3*B, 6, 2)>>,
      <<6, 7, R(-3*B)>>
    >> ]

d5_E_2(Dq, B, C) ==
  [ diag |-> <<
      R(-10*Dq - 4*B + 12*C),
      R(-10*Dq - 13*B + 9*C),
      R(-4*B + 10*C),
      R(-16*B + 8*C),
      R(-12*B + 8*C),
      R(10*Dq - 13*B + 9*C),
      R(10*Dq - 4*B + 12*C)
    >>,
    off |-> <<
      <<0, 1, R(10*B)>>,
      <<0, 2, R(6*B)>>,
      <<0, 3, Surd(6*B, 3, 1)>>,
      <<0, 4, Surd(6*B, 2, 1)>>,
      <<0, 5, R(-2*B)>>,
      <<0, 6, R(4*B + 2*C)>>,
      <<1, 2, R(-3*B)>>,
      <<1, 3, Surd(3*B, 3, 1)>>,
      <<1, 4, R(0)>>,
      <<1, 5, R(2*B + C)>>,
      <<1, 6, R(2*B)>>,
      <<2, 3, R(0)>>,
      <<2, 4, R(0)>>,
      <<2, 5, R(-3*B)>>,
      <<2, 6, R(-6*B)>>,
      <<3, 4, Surd(2*B, 6, 1)>>,
      <<3, 5, Surd(-3*B, 3, 1)>>,
      <<3, 6, Surd(6*B, 3, 1)>>,
      <<4, 5, R(0)>>,
      <<4, 6, Surd(6*B, 2, 1)>>,
      <<5, 6, R(-10*B)>>
    >> ]

d5_A_2_1(Dq, B, C) ==
  [ diag |-> <<
      R(-10*Dq - 3*B + 9*C),
      R(-12*B + 8*C),
      R(-19*B + 8*C),
      R(10*Dq - 3*B + 9*C)
    >>,
    off |-> <<
      <<0, 1, Surd(-3*B, 2, 1)>>,
      <<0, 2, R(0)>>,
      <<0, 3, R(6*B + C)>>,
      <<1, 2, Surd(-4*B, 3, 1)>>,
      <<1, 3, Surd(3*B, 2, 1)>>,
      <<2, 3, R(0)>>
    >> ]

d5_A_2_2(Dq, B, C) ==
  [ diag |-> <<
      R(-10*Dq - 23*B + 9*C),
      R(-12*B + 8*C),
      R(10*Dq - 23*B + 9*C)
    >>,
    off |-> <<
      <<0, 1, Surd(3*B, 2, 1)>>,
      <<0, 2, R(-2*B + C)>>,
      <<1, 2, Surd(-3*B, 2, 1)>>
    >> ]

d5_T_4_1(Dq, B, C) ==
  [ diag |-> <<
      R(-10*Dq - 25*B + 6*C),
      R(-16*B + 7*C),
      R(10*Dq - 25*B + 6*C)
    >>,
    off |-> <<
      <<0, 1, Surd(-3*B, 2, 1)>>,
      <<0, 2, R(C)>>,
      <<1, 2, Surd(-3*B, 2, 1)>>
    >> ]

d5_T_4_2(Dq, B, C) ==
  [ diag |-> <<
      R(-10*Dq - 17*B + 6*C),
      R(-22*B + 5*C),
      R(10*Dq - 17*B + 6*C)
    >>,
    off |-> <<
      <<0, 1, Surd(B, 6, 1)>>,
      <<0, 2, R(4*B + C)>>,
      <<1, 2, Surd(-B, 6, 1)>>
    >> ]

d5_E_4(Dq, B, C) ==
  [ diag |-> <<
      R(-22*B + 5*C),
      R(-21*B + 5*C)
    >>,
    off |-> <<
      <<0, 1, Surd(-2*B, 3, 1)>>
    >> ]

d6_T_3_1(Dq, B, C) ==
  [ diag |-> <<
      R(16*Dq - 15*B + 5*C),
      R(6*Dq - 11*B + 4*C),
      R(6*Dq - 3*B + 6*C),
      R(-4*Dq - B + 6*C),
      R(-4*Dq - 9*B + 4*C),
      R(-4*Dq - 11*B + 4*C),
      R(-14*Dq - 16*B + 5*C)
    >>,
    off |-> <<
      <<0, 1, Surd(-B, 6, 1)>>,
      <<0, 2, Surd(-3*B, 2, 1)>>,
      <<0, 3, Surd(2*B + C, 2, 1)>>,
      <<0, 4, Surd(-2*B, 2, 1)>>,
      <<0, 5, R(0)>>,
      <<0, 6, R(0)>>,
      <<1, 2, Surd(5*B, 3, 1)>>,
      <<1, 3, Surd(B, 3, 1)>>,
      <<1, 4, Surd(-B, 3, 1)>>,
      <<1, 5, R(3*B)>>,
      <<1, 6, Surd(B, 6, 1)>>,
      <<2, 3, R(-3*B)>>,
      <<2, 4, R(-3*B)>>,
      <<2, 5, Surd(5*B, 3, 1)>>,
      <<2, 6, Surd(B + C, 2, 1)>>,
      <<3, 4, R(-10*B)>>,
      <<3, 5, R(0)>>,
      <<3, 6, Surd(3*B, 2, 1)>>,
      <<4, 5, Surd(-2*B, 3, 1)>>,
      <<4, 6, Surd(-3*B, 2, 1)>>,
      <<5, 6, Surd(B, 6, 1)>>
    >> ]

d6_T_1_2(Dq, B, C) ==
  [ diag |-> <<
      R(16*Dq - 9*B + 7*C),
      R(6*Dq - 9*B + 6*C),
      R(6*Dq + 3*B + 8*C),
      R(-4*Dq - 9*B + 6*C),
      R(-4*Dq - 3*B + 6*C),
      R(-4*Dq + 5*B + 8*C),
      R(-14*Dq + 7*C)
    >>,
    off |-> <<
      <<0, 1, Surd(3*B, 2, 1)>>,
      <<0, 2, Surd(-5*B, 6, 1)>>,
      <<0, 3, R(0)>>,
      <<0, 4, Surd(-2*B, 2, 1)>>,
      <<0, 5, Surd(2*B + C, 2, 1)>>,
      <<0, 6, R(0)>>,
      <<1, 2, Surd(-5*B, 3, 1)>>,
      <<1, 3, R(3*B)>>,
      <<1, 4, R(-3*B)>>,
      <<1, 5, R(-3*B)>>,
      <<1, 6, Surd(-B, 6, 1)>>,
      <<2, 3, Surd(-3*B, 3, 1)>>,
      <<2, 4, Surd(5*B, 3, 1)>>,
      <<2, 5, Surd(-5*B, 3, 1)>>,
      <<2, 6, Surd(3*B + C, 2, 1)>>,
      <<3, 4, R(-6*B)>>,
      <<3, 5, R(0)>>,
      <<3, 6, Surd(-3*B, 6, 1)>>,
      <<4, 5, R(-10*B)>>,
      <<4, 6, Surd(B, 6, 1)>>,
      <<5, 6, Surd(B, 6, 1)>>
    >> ]

d6_A_1_1(Dq, B, C) ==
  [ diag |-> <<
      R(16*Dq + 10*C),
      R(6*Dq + 6*C),
      R(-4*Dq + 14*B + 11*C),
      R(-4*Dq - 3*B + 6*C),
      R(-24*Dq - 16*B + 8*C)
    >>,
    off |-> <<
      <<0, 1, Surd(-12*B, 2, 1)>>,
      <<0, 2, Surd(4*B + 2*C, 2, 1)>>,
      <<0, 3, Surd(2*B, 2, 1)>>,
      <<0, 4, R(0)>>,
      <<1, 2, R(-12*B)>>,
      <<1, 3, R(-6*B)>>,
      <<1, 4, R(0)>>,
      <<2, 3, R(20*B)>>,
      <<2, 4, Surd(2*B + C, 6, 1)>>,
      <<3, 4, Surd(2*B, 6, 1)>>
    >> ]

d6_E_1_1(Dq, B, C) ==
  [ diag |-> <<
      R(16*Dq - 9*B + 7*C),
      R(6*Dq - 6*B + 6*C),
      R(-4*Dq + 5*B + 8*C),
      R(-4*Dq + 6*B + 9*C),
      R(-4*Dq - 3*B + 6*C)
    >>,
    off |-> <<
      <<0, 1, R(6*B)>>,
      <<0, 2, Surd(2*B + C, 2, 1)>>,
      <<0, 3, R(-2*B)>>,
      <<0, 4, R(-4*B)>>,
      <<1, 2, Surd(-3*B, 2, 1)>>,
      <<1, 3, R(-12*B)>>,
      <<1, 4, R(0)>>,
      <<2, 3, Surd(10*B, 2, 1)>>,
      <<2, 4, Surd(-10*B, 2, 1)>>,
      <<3, 4, R(0)>>
    >> ]

d6_T_3_2(Dq, B, C) ==
  [ diag |-> <<
      R(6*Dq - 9*B + 4*C),
      R(6*Dq - 5*B + 6*C),
      R(-4*Dq - 13*B + 4*C),
      R(-4*Dq - 9*B + 4*C),
      R(-14*Dq - 8*B + 5*C)
    >>,
    off |-> <<
      <<0, 1, Surd(-5*B, 3, 1)>>,
      <<0, 2, Surd(B, 6, 1)>>,
      <<0, 3, Surd(B, 3, 1)>>,
      <<0, 4, Surd(-B, 6, 1)>>,
      <<1, 2, Surd(-3*B, 2, 1)>>,
      <<1, 3, R(3*B)>>,
      <<1, 4, Surd(3*B + C, 2, 1)>>,
      <<2, 3, Surd(-2*B, 2, 1)>>,
      <<2, 4, R(-6*B)>>,
      <<3, 4, Surd(3*B, 2, 1)>>
    >> ]

d6_T_1_1(Dq, B, C) ==
  [ diag |-> <<
      R(6*Dq - 3*B + 6*C),
      R(6*Dq - 3*B + 8*C),
      R(-4*Dq - 3*B + 6*C),
      R(-14*Dq - 16*B + 7*C)
    >>,
    off |-> <<
      <<0, 1, Surd(5*B, 3, 1)>>,
      <<0, 2, R(3*B)>>,
      <<0, 3, Surd(B, 6, 1)>>,
      <<1, 2, Surd(-5*B, 3, 1)>>,
      <<1, 3, Surd(B + C, 2, 1)>>,
      <<2, 3, Surd(-B, 6, 1)>>
    >> ]

d6_E_3_1(Dq, B, C) ==
  [ diag |-> <<
      R(6*Dq - 13*B + 4*C),
      R(6*Dq - 10*B + 4*C),
      R(-4*Dq - 11*B + 4*C)
    >>,
    off |-> <<
      <<0, 1, R(-4*B)>>,
      <<0, 2, R(0)>>,
      <<1, 2, Surd(-3*B, 2, 1)>>
    >> ]

d6_A_3_2(Dq, B, C) ==
  [ diag |-> <<
      R(6*Dq - 8*B + 4*C),
      R(-4*Dq - 2*B + 7*C)
    >>,
    off |-> <<
      <<0, 1, R(-12*B)>>
    >> ]

d6_A_1_2(Dq, B, C) ==
  [ diag |-> <<
      R(6*Dq - 12*B + 6*C),
      R(-4*Dq - 3*B + 6*C)
    >>,
    off |-> <<
      <<0, 1, R(6*B)>>
    >> ]

d7_T_2_2(Dq, B, C) ==
  [ diag |-> <<
      R(12*Dq + 5*C),
      R(2*Dq - 6*B + 3*C),
      R(2*Dq + 4*B + 3*C),
      R(-8*Dq + 6*B + 5*C),
      R(-8*Dq - 2*B + 3*C)
    >>,
    off |-> <<
      <<0, 1, Surd(-3*B, 3, 1)>>,
      <<0, 2, Surd(-5*B, 3, 1)>>,
      <<0, 3, R(4*B + 2*C)>>,
      <<0, 4, R(2*B)>>,
      <<1, 2, R(3*B)>>,
      <<1, 3, Surd(-3*B, 3, 1)>>,
      <<1, 4, Surd(-3*B, 3, 1)>>,
      <<2, 3, Surd(-B, 3, 1)>>,
      <<2, 4, Surd(B, 3, 1)>>,
      <<3, 4, R(10*B)>>
    >> ]

d7_T_2_1(Dq, B, C) ==
  [ diag |-> <<
      R(12*Dq - 6*B + 3*C),
      R(2*Dq + 3*C),
      R(2*Dq - 6*B + 3*C),
      R(-8*Dq - 6*B + 3*C),
      R(-8*Dq - 2*B + 3*C)
    >>,
    off |-> <<
      <<0, 1, R(-3*B)>>,
      <<0, 2, R(3*B)>>,
      <<0, 3, R(0)>>,
      <<0, 4, Surd(-2*B, 3, 1)>>,
      <<1, 2, R(-3*B)>>,
      <<1, 3, R(3*B)>>,
      <<1, 4, Surd(3*B, 3, 1)>>,
      <<2, 3, R(-3*B)>>,
      <<2, 4, Surd(-B, 3, 1)>>,
      <<3, 4, Surd(2*B, 3, 1)>>
    >> ]

d7_E_2(Dq, B, C) ==
  [ diag |-> <<
      R(12*Dq - 6*B + 3*C),
      R(2*Dq + 8*B + 6*C),
      R(2*Dq - B + 3*C),
      R(-18*Dq - 8*B + 4*C)
    >>,
    off |-> <<
      <<0, 1, Surd(-6*B, 2, 1)>>,
      <<0, 2, Surd(-3*B, 2, 1)>>,
      <<0, 3, R(0)>>,
      <<1, 2, R(10*B)>>,
      <<1, 3, Surd(2*B + C, 3, 1)>>,
      <<2, 3, Surd(2*B, 3, 1)>>
    >> ]

d7_T_4_1(Dq, B, C) ==
  [ diag |-> <<
      R(2*Dq - 3*B),
      R(-8*Dq - 12*B)
    >>,
    off |-> <<
      <<0, 1, R(6*B)>>
    >> ]

d8_A_1_1(Dq, B, C) ==
  [ diag |-> <<
      R(8*Dq + 10*B + 5*C),
      R(-12*Dq + 8*B + 4*C)
    >>,
    off |-> <<
      <<0, 1, Surd(2*B + C, 6, 1)>>
    >> ]

\* the same block with the field terms of the two-electron table
d8_E_1Unconjugated(Dq, B, C) ==
  [ diag |-> <<
      R(-8*Dq + B + 2*C),
      R(12*Dq + 2*C)
    >>,
    off |-> <<
      <<0, 1, Surd(-2*B, 3, 1)>>
    >> ]

d8_E_1(Dq, B, C) ==
  [ diag |-> <<
      R(8*Dq + B + 2*C),
      R(-12*Dq + 2*C)
    >>,
    off |-> <<
      <<0, 1, Surd(-2*B, 3, 1)>>
    >> ]

d8_T_1_2(Dq, B, C) ==
  [ diag |-> <<
      R(8*Dq + B + 2*C),
      R(-2*Dq + 2*C)
    >>,
    off |-> <<
      <<0, 1, Surd(2*B, 3, 1)>>
    >> ]

\* the same block with its coupling keyed one column past the end
d8_T_3_1Outside(Dq, B, C) ==
  [ diag |-> <<
      R(8*Dq - 5*B),
      R(-2*Dq + 4*B)
    >>,
    off |-> <<
      <<0, 2, R(6*B)>>
    >> ]

d8_T_3_1(Dq, B, C) ==
  [ diag |-> <<
      R(8*Dq - 5*B),
      R(-2*Dq + 4*B)
    >>,
    off |-> <<
      <<0, 1, R(6*B)>>
    >> ]

(***************************************************************************)
(* solver().  Each configuration's solver() is the sequence of its          *)
(* statements, in source order.  A local array is a sequence of energies;   *)
(* the scalar GS is a one-element array (numpy broadcasts both alike).      *)
(*   Call(t, blk)        t = self.blk_states()                              *)
(*   CallIdx(t, blk, k)  t = self.blk_states()[k]                           *)
(*   CallSub(t, blk, g)  t = self.blk_states() - g                          *)
(*   Lit(t, x)           t = np.array([x])                                  *)
(*   Zero(t)             t = np.array([0])                                  *)
(*   LitSub(t, x, g)     t = np.array([x]) - g                              *)
(*   Idx(t, s, k)        t = s[k]                                           *)
(*   Put(t, k, x)        t[k] = x                                           *)
(*   ISubAt(t, k, g)     t[k] -= g                                          *)
(*   If(s, tol, n)       if s[0] <= tol:   (a body of n statements)         *)
(*   ISub(t, s)          t -= s[0]                                          *)
(*   Return(pairs)       return {label: local, ...}                         *)
(***************************************************************************)
Call(t, blk) == [op |-> "Call", tgt |-> t, block |-> blk]
CallIdx(t, blk, k) == [op |-> "CallIdx", tgt |-> t, block |-> blk, at |-> k]
CallSub(t, blk, g) == [op |-> "CallSub", tgt |-> t, block |-> blk, src |-> g]
Lit(t, x) == [op |-> "Lit", tgt |-> t, x |-> x]
Zero(t) == [op |-> "Zero", tgt |-> t]
LitSub(t, x, g) == [op |-> "LitSub", tgt |-> t, x |-> x, src |-> g]
Idx(t, s, k) == [op |-> "Idx", tgt |-> t, src |-> s, at |-> k]
Put(t, k, x) == [op |-> "Put", tgt |-> t, at |-> k, x |-> x]
ISubAt(t, k, g) == [op |-> "ISubAt", tgt |-> t, at |-> k, src |-> g]
If(s, tol, n) == [op |-> "If", src |-> s, tol |-> tol, body |-> n]
ISub(t, s) == [op |-> "ISub", tgt |-> t, src |-> s]
Return(pairs) == [op |-> "Return", pairs |-> pairs]
RaiseMsg(x, msg) == [op |-> "Raise", exc |-> x, msg |-> msg]

\* the base class, which is no configuration
LigandFieldTheory == 0

\* variant that returns an empty mapping
LigandFieldTheory_solverEmpty == << Return(<<>>) >>

\* LigandFieldTheory.solver
LigandFieldTheory_solver ==
  << RaiseMsg("NotImplementedError", "Subclasses should implement this method.") >>

d2_solver(Dq, B, C) ==
  << CallIdx("GS", d2_T_3_1(Dq, B, C), 0),
     LitSub("T_1_1", 2*Dq + 4*B + 2*C, "GS"),
     LitSub("T_3_2", 2*Dq - 8*B, "GS"),
     LitSub("A_3_2", 12*Dq - 8*B, "GS"),
     CallSub("A_1_1", d2_A_1_1(Dq, B, C), "GS"),
     CallSub("E_1", d2_E_1(Dq, B, C), "GS"),
     CallSub("T_1_2", d2_T_1_2(Dq, B, C), "GS"),
     CallSub("T_3_1", d2_T_3_1(Dq, B, C), "GS"),
     Return(<< <<"1_A_1", "A_1_1">>, <<"1_E", "E_1">>, <<"1_T_3", "T_1_2">>,
               <<"3_T_1", "T_3_1">>, <<"1_T_1", "T_1_1">>, <<"3_T_2", "T_3_2">>,
               <<"3_A_2", "A_3_2">> >>) >>

d3_solver(Dq, B, C) ==
  << Lit("GS", -12*Dq - 15*B),
     Zero("A_4_2"),
     LitSub("T_4_2", -2*Dq - 15*B, "GS"),
     LitSub("A_2_1", -2*Dq - 11*B + 3*C, "GS"),
     LitSub("A_2_2", -2*Dq + 9*B + 3*C, "GS"),
     CallSub("T_2_2", d3_T_2_2(Dq, B, C), "GS"),
     CallSub("T_2_1", d3_T_2_1(Dq, B, C), "GS"),
     CallSub("E_2", d3_E_2(Dq, B, C), "GS"),
     CallSub("T_4_1", d3_T_4_1(Dq, B, C), "GS"),
     Return(<< <<"2_T_2", "T_2_2">>, <<"2_T_1", "T_2_1">>, <<"2_E", "E_2">>,
               <<"4_T_1", "T_4_1">>, <<"4_A_2", "A_4_2">>, <<"4_T_2", "T_4_2">>,
               <<"2_A_1", "A_2_1">>, <<"2_A_2", "A_2_2">> >>) >>

d4_solver(Dq, B, C) ==
  << Lit("GS", -6*Dq - 21*B),
     Zero("E_5_1"),
     LitSub("T_5_2", 4*Dq - 21*B, "GS"),
     LitSub("A_3_1", -6*Dq - 12*B + 4*C, "GS"),
     CallSub("T_1_2", d4_T_1_2(Dq, B, C), "GS"),
     CallSub("T_3_1", d4_T_3_1(Dq, B, C), "GS"),
     CallSub("A_1_1", d4_A_1_1(Dq, B, C), "GS"),
     CallSub("E_1_1", d4_E_1_1(Dq, B, C), "GS"),
     CallSub("T_3_2", d4_T_3_2(Dq, B, C), "GS"),
     CallSub("T_1_1", d4_T_1_1(Dq, B, C), "GS"),
     CallSub("E_3_1", d4_E_3_1(Dq, B, C), "GS"),
     CallSub("A_3_2", d4_A_3_2(Dq, B, C), "GS"),
     CallSub("A_1_2", d4_A_1_2(Dq, B, C), "GS"),
     If("T_3_1", 0, 12),
     ISub("T_1_2", "T_3_1"),
     ISub("A_1_1", "T_3_1"),
     ISub("E_1_1", "T_3_1"),
     ISub("T_3_2", "T_3_1"),
     ISub("T_1_1", "T_3_1"),
     ISub("E_3_1", "T_3_1"),
     ISub("A_3_2", "T_3_1"),
     ISub("A_1_2", "T_3_1"),
     ISub("E_5_1", "T_3_1"),
     ISub("T_5_2", "T_3_1"),
     ISub("A_3_1", "T_3_1"),
     ISub("T_3_1", "T_3_1"),
     Return(<< <<"3_T_1", "T_3_1">>, <<"1_T_2", "T_1_2">>, <<"1_A_1", "A_1_1">>,
               <<"1_E_1", "E_1_1">>, <<"3_T_2", "T_3_2">>, <<"1_T_1", "T_1_1">>,
               <<"3_E_1", "E_3_1">>, <<"3_A_2", "A_3_2">>, <<"1_A_2", "A_1_2">>,
               <<"5_E_1", "E_5_1">>, <<"5_T_2", "T_5_2">>, <<"3_A_1", "A_3_1">> >>) >>

d5_solver(Dq, B, C) ==
  << Lit("GS", -35*B),
     Zero("A_6_1"),
     CallSub("E_4", d5_E_4(Dq, B, C), "GS"),
     LitSub("A_4_1", -25*B + 5*C, "GS"),
     LitSub("A_4_2", -13*B + 7*C, "GS"),
     CallSub("T_2_2", d5_T_2_2(Dq, B, C), "GS"),
     CallSub("T_2_1", d5_T_2_1(Dq, B, C), "GS"),
     CallSub("E_2", d5_E_2(Dq, B, C), "GS"),
     CallSub("A_2_1", d5_A_2_1(Dq, B, C), "GS"),
     CallSub("A_2_2", d5_A_2_2(Dq, B, C), "GS"),
     CallSub("T_4_1", d5_T_4_1(Dq, B, C), "GS"),
     CallSub("T_4_2", d5_T_4_2(Dq, B, C), "GS"),
     If("T_2_2", 0, 11),
     ISub("A_6_1", "T_2_2"),
     ISub("E_4", "T_2_2"),
     ISub("A_4_1", "T_2_2"),
     ISub("A_4_2", "T_2_2"),
     ISub("T_2_1", "T_2_2"),
     ISub("E_2", "T_2_2"),
     ISub("A_2_1", "T_2_2"),
     ISub("A_2_2", "T_2_2"),
     ISub("T_4_1", "T_2_2"),
     ISub("T_4_2", "T_2_2"),
     ISub("T_2_2", "T_2_2"),
     Return(<< <<"2_T_2", "T_2_2">>, <<"2_T_1", "T_2_1">>, <<"2_E", "E_2">>,
               <<"2_A_1", "A_2_1">>, <<"2_A_2", "A_2_2">>, <<"4_T_1", "T_4_1">>,
               <<"4_T_2", "T_4_2">>, <<"4_E", "E_4">>, <<"6_A_1", "A_6_1">>,
               <<"4_A_1", "A_4_1">>, <<"4_A_2", "A_4_2">> >>) >>

d6_solver(Dq, B, C) ==
  << Lit("GS", -4*Dq - 21*B),
     Zero("T_5_2"),
     LitSub("E_5_1", 6*Dq - 21*B, "GS"),
     LitSub("A_3_1", 6*Dq - 12*B + 4*C, "GS"),
     CallSub("T_1_2", d6_T_1_2(Dq, B, C), "GS"),
     CallSub("T_3_1", d6_T_3_1(Dq, B, C), "GS"),
     CallSub("A_1_1", d6_A_1_1(Dq, B, C), "GS"),
     CallSub("E_1_1", d6_E_1_1(Dq, B, C), "GS"),
     CallSub("T_3_2", d6_T_3_2(Dq, B, C), "GS"),
     CallSub("T_1_1", d6_T_1_1(Dq, B, C), "GS"),
     CallSub("E_3_1", d6_E_3_1(Dq, B, C), "GS"),
     CallSub("A_3_2", d6_A_3_2(Dq, B, C), "GS"),
     CallSub("A_1_2", d6_A_1_2(Dq, B, C), "GS"),
     If("A_1_1", ENERGY_TOLERANCE, 12),
     ISub("T_1_2", "A_1_1"),
     ISub("E_1_1", "A_1_1"),
     ISub("T_3_2", "A_1_1"),
     ISub("T_1_1", "A_1_1"),
     ISub("E_3_1", "A_1_1"),
     ISub("A_3_2", "A_1_1"),
     ISub("A_1_2", "A_1_1"),
     ISub("T_3_1", "A_1_1"),
     ISub("E_5_1", "A_1_1"),
     ISub("T_5_2", "A_1_1"),
     ISub("A_3_1", "A_1_1"),
     ISub("A_1_1", "A_1_1"),
     Return(<< <<"3_T_1", "T_3_1">>, <<"1_T_2", "T_1_2">>, <<"1_A_1", "A_1_1">>,
               <<"1_E_1", "E_1_1">>, <<"3_T_2", "T_3_2">>, <<"1_T_1", "T_1_1">>,
               <<"3_E_1", "E_3_1">>, <<"3_A_2", "A_3_2">>, <<"1_A_2", "A_1_2">>,
               <<"5_E_1", "E_5_1">>, <<"5_T_2", "T_5_2">>, <<"3_A_1", "A_3_1">> >>) >>

d7_solver(Dq, B, C) ==
  << Call("T_4_1", d7_T_4_1(Dq, B, C)),
     Idx("GS", "T_4_1", 0),
     Put("T_4_1", 0, 0),
     LitSub("A_4_2", 12*Dq - 15*B, "GS"),
     LitSub("T_4_2", 2*Dq - 15*B, "GS"),
     LitSub("A_2_1", 2*Dq - 11*B + 3*C, "GS"),
     LitSub("A_2_2", 2*Dq + 9*B + 3*C, "GS"),
     CallSub("T_2_2", d7_T_2_2(Dq, B, C), "GS"),
     CallSub("T_2_1", d7_T_2_1(Dq, B, C), "GS"),
     CallSub("E_2", d7_E_2(Dq, B, C), "GS"),
     ISubAt("T_4_1", 1, "GS"),
     If("E_2", 0, 8),
     ISub("A_4_2", "E_2"),
     ISub("T_4_2", "E_2"),
     ISub("A_2_1", "E_2"),
     ISub("A_2_2", "E_2"),
     ISub("T_2_2", "E_2"),
     ISub("T_2_1", "E_2"),
     ISub("T_4_1", "E_2"),
     ISub("E_2", "E_2"),
     Return(<< <<"2_T_2", "T_2_2">>, <<"2_T_1", "T_2_1">>, <<"2_E", "E_2">>,
               <<"4_T_1", "T_4_1">>, <<"4_A_2", "A_4_2">>, <<"4_T_2", "T_4_2">>,
               <<"2_A_1", "A_2_1">>, <<"2_A_2", "A_2_2">> >>) >>

d8_solver(Dq, B, C) ==
  << Lit("GS", -12*Dq - 8*B),
     LitSub("T_1_1", -2*Dq + 4*B + 2*C, "GS"),
     LitSub("T_3_2", -2*Dq - 8*B, "GS"),
     Zero("A_3_2"),
     CallSub("A_1_1", d8_A_1_1(Dq, B, C), "GS"),
     CallSub("E_1", d8_E_1(Dq, B, C), "GS"),
     CallSub("T_1_2", d8_T_1_2(Dq, B, C), "GS"),
     CallSub("T_3_1", d8_T_3_1(Dq, B, C), "GS"),
     Return(<< <<"1_A_1", "A_1_1">>, <<"1_E", "E_1">>, <<"1_T_3", "T_1_2">>,
               <<"3_T_1", "T_3_1">>, <<"1_T_1", "T_1_1">>, <<"3_T_2", "T_3_2">>,
               <<"3_A_2", "A_3_2">> >>) >>

\* the solver() of the class the caller instantiates for a d-count
Program(d, Dq, B, C) ==
  CASE d = 2 -> d2_solver(Dq, B, C)
    [] d = 3 -> d3_solver(Dq, B, C)
    [] d = 4 -> d4_solver(Dq, B, C)
    [] d = 5 -> d5_solver(Dq, B, C)
    [] d = 6 -> d6_solver(Dq, B, C)
    [] d = 7 -> d7_solver(Dq, B, C)
    [] d = 8 -> d8_solver(Dq, B, C)
    [] d = LigandFieldTheory -> LigandFieldTheory_solver

(***************************************************************************)
(* Execution of solver().  The control state of a call is                   *)
(*   [status, ip, taken, ncalls, exc, ret, rawret, retobj]                  *)
(* status: "idle" (not called), "running", "returned", "raised";            *)
(* ip: the next statement; taken: the body of the correction branch was     *)
(* entered; ncalls: block-builder calls made; exc: the exception raised;    *)
(* ret: the returned mapping.  The locals of a call are mem.loc.  mem.raw   *)
(* and rawret are not program state: they remember, for every local array,  *)
(* the energies it was built from before any referencing (for a term the    *)
(* code sets to a literal 0, the nominal ground-state energy GS).           *)
(* mem.obj names the array object each local is bound to: every np.array,   *)
(* every array expression and every eigensolver result is a new object,     *)
(* numbered in the order of creation within the call (mem.nalloc counts     *)
(* them); an in-place update keeps the object.  retobj is the object        *)
(* returned under each label.                                               *)
(***************************************************************************)
NoMap == [l \in {} |-> <<>>]

IdleCall ==
  [status |-> "idle", ip |-> 0, taken |-> FALSE, ncalls |-> 0, exc |-> "none",
   msg |-> "", ret |-> NoMap, rawret |-> NoMap, retobj |-> NoMap]

EmptyMem == [loc |-> NoMap, raw |-> NoMap, obj |-> NoMap, nalloc |-> 0]

\* variant in which an array equal to one already held by a local is that
\* local's object, as with arrays cached by value
BindCached(mem, t, v, rw) ==
  LET same == {u \in DOMAIN mem.loc : mem.loc[u] = v}
  IN [loc |-> (t :> v) @@ mem.loc, raw |-> (t :> rw) @@ mem.raw,
      obj |-> (t :> IF same # {} THEN mem.obj[CHOOSE u \in same : TRUE]
                    ELSE mem.nalloc + 1) @@ mem.obj,
      nalloc |-> mem.nalloc + 1]

\* t = <array expression>: t names a new object
Bind(mem, t, v, rw) ==
  [loc |-> (t :> v) @@ mem.loc, raw |-> (t :> rw) @@ mem.raw,
   obj |-> (t :> mem.nalloc + 1) @@ mem.obj, nalloc |-> mem.nalloc + 1]

Rebind(mem, t, v) == [mem EXCEPT !.loc = (t :> v) @@ mem.loc]

\* variant with the sign of the reference slipped
SubFlipped(a, g) == [i \in 1..Len(a) |-> a[i] + g[1]]

\* a - g for an array a and a scalar (or one-element array) g
Sub(a, g) == [i \in 1..Len(a) |-> a[i] - g[1]]

\* variants of the in-place update: the result dropped, and only entry 0 updated
InPlaceSubDropped(a, c) == a

InPlaceSubFirst(a, c) == [i \in 1..Len(a) |-> IF i = 1 THEN a[i] - c ELSE a[i]]

\* t -= c, in place, c a scalar read before the update
InPlaceSub(a, c) == [i \in 1..Len(a) |-> a[i] - c]

\* variant of the branch test with a strict comparison
TakenStrict(v, tol) == v < tol

\* variant that reads the last entry of the candidate block
Highest(a) == a[Len(a)]

\* X[0]: the lowest entry of an eigenvalue array
Lowest(a) == a[1]

\* variant that enters the branch whatever the candidate
TakenAlways(v, tol) == TRUE

\* the test of the correction branch: s[0] <= tol
Taken(v, tol) == v <= tol

\* variant of the return statement that leaves out its last entry
ReturnDictShort(pairs, arrays) ==
  [l \in {pairs[k][1] : k \in 1..Len(pairs) - 1} |->
     arrays[pairs[CHOOSE k \in 1..Len(pairs) - 1 : pairs[k][1] = l][2]]]

\* the dict literal of the return statement: a repeated key keeps its last value
ReturnDict(pairs, arrays) ==
  [l \in {pairs[k][1] : k \in 1..Len(pairs)} |->
     LET last == CHOOSE k \in 1..Len(pairs) :
                   /\ pairs[k][1] = l
                   /\ \A m \in 1..Len(pairs) : pairs[m][1] = l => m <= k
     IN arrays[pairs[last][2]]]

\* variant with a handler that returns the terms computed so far
OnRaiseHandled(st, ctl, mem, x) ==
  [ctl |-> [ctl EXCEPT !.status = "returned", !.ncalls = @ + 1, !.ret = mem.loc,
                       !.rawret = mem.raw],
   mem |-> mem]

\* solver() has no handler: an exception of a block builder leaves the call at once
OnRaise(st, ctl, mem, x) ==
  [ctl |-> [ctl EXCEPT !.status = "raised", !.exc = x, !.ncalls = @ + 1], mem |-> mem]

Exec(st, ctl, mem) ==
  LET next == [ctl EXCEPT !.ip = @ + 1]
      called == [next EXCEPT !.ncalls = @ + 1]
      loc == mem.loc
  IN CASE st.op = "Call" ->
            LET r == states(st.block)
            IN IF r.exc # "none" THEN OnRaise(st, ctl, mem, r.exc)
               ELSE [ctl |-> called, mem |-> Bind(mem, st.tgt, r.val, r.val)]
       [] st.op = "CallIdx" ->
            LET r == states(st.block)
            IN IF r.exc # "none" THEN OnRaise(st, ctl, mem, r.exc)
               ELSE [ctl |-> called,
                     mem |-> Bind(mem, st.tgt, <<r.val[st.at + 1]>>, <<r.val[st.at + 1]>>)]
       [] st.op = "CallSub" ->
            LET r == states(st.block)
            IN IF r.exc # "none" THEN OnRaise(st, ctl, mem, r.exc)
               ELSE [ctl |-> called,
                     mem |-> Bind(mem, st.tgt, Sub(r.val, loc[st.src]), r.val)]
       [] st.op = "Lit" ->
            [ctl |-> next, mem |-> Bind(mem, st.tgt, <<st.x>>, <<st.x>>)]
       [] st.op = "Zero" ->
            [ctl |-> next, mem |-> Bind(mem, st.tgt, <<0>>, mem.raw["GS"])]
       [] st.op = "LitSub" ->
            [ctl |-> next, mem |-> Bind(mem, st.tgt, Sub(<<st.x>>, loc[st.src]), <<st.x>>)]
       [] st.op = "Idx" ->
            [ctl |-> next,
             mem |-> Bind(mem, st.tgt, <<loc[st.src][st.at + 1]>>,
                          <<mem.raw[st.src][st.at + 1]>>)]
       [] st.op = "Put" ->
            [ctl |-> next,
             mem |-> Rebind(mem, st.tgt, [loc[st.tgt] EXCEPT ![st.at + 1] = st.x])]
       [] st.op = "ISubAt" ->
            [ctl |-> next,
             mem |-> Rebind(mem, st.tgt,
                            [loc[st.tgt] EXCEPT ![st.at + 1] = @ - loc[st.src][1]])]
       [] st.op = "If" ->
            IF Taken(Lowest(loc[st.src]), st.tol)
            THEN [ctl |-> [next EXCEPT !.taken = TRUE], mem |-> mem]
            ELSE [ctl |-> [ctl EXCEPT !.ip = @ + 1 + st.body], mem |-> mem]
       [] st.op = "ISub" ->
            [ctl |-> next,
             mem |-> Rebind(mem, st.tgt, InPlaceSub(loc[st.tgt], Lowest(loc[st.src])))]
       [] st.op = "Raise" ->
            [ctl |-> [ctl EXCEPT !.status = "raised", !.exc = st.exc, !.msg = st.msg],
             mem |-> mem]
       [] st.op = "Return" ->
            [ctl |-> [ctl EXCEPT !.status = "returned",
                                 !.ret = ReturnDict(st.pairs, loc),
                                 !.rawret = ReturnDict(st.pairs, mem.raw),
                                 !.retobj = ReturnDict(st.pairs, mem.obj)],
             mem |-> mem]

RECURSIVE RunFrom(_, _, _)
RunFrom(prog, ctl, mem) ==
  IF ctl.status # "running" THEN [ctl |-> ctl, mem |-> mem]
  ELSE LET s == Exec(prog[ctl.ip], ctl, mem) IN RunFrom(prog, s.ctl, s.mem)

\* one whole solver() call of an instance, run alone
solver(self) ==
  RunFrom(Program(self.d, self.Dq, self.B, self.C),
          [IdleCall EXCEPT !.status = "running", !.ip = 1], EmptyMem)

\* variant in which the locals are shared by all calls, as module-level arrays
\* would be
FrameOfShared(e) == 1

\* every call of solver() has its own frame of locals
FrameOf(e) == e

(***************************************************************************)
(* Instances.  LigandFieldTheory.__init__ stores Dq, B, C.                  *)
(***************************************************************************)
NoInst == [made |-> FALSE, d |-> 0, Dq |-> 0, B |-> 0, C |-> 0]

NewInst(d, Dq, B, C) == [made |-> TRUE, d |-> d, Dq |-> Dq, B |-> B, C |-> C]

Finished(e) == call[e].status \in {"returned", "raised"}

\* the eigenvalue routine either always converges or fails on the 2x2 blocks,
\* of which every configuration has one
Lapacks == [repel : 0..MaxRepel, diverge : {0, 2}]

(***************************************************************************)
(* A sweep (the loops of the tests and of Batch.calculation): the points    *)
(* are evaluated one after the other, each by a fresh instance of the same  *)
(* class.  The second point keeps B and C; its Dq is the same grid value     *)
(* again or the next one.                                                   *)
(***************************************************************************)
Construct(e, d, Dq, B, C) ==
  /\ ~inst[e].made
  /\ \/ e = 1
     \/ /\ e = 2
        /\ Finished(1)
        /\ d = inst[1].d /\ B = inst[1].B /\ C = inst[1].C
        /\ Dq \in {inst[1].Dq, inst[1].Dq + 1}
  /\ inst' = [inst EXCEPT ![e] = NewInst(d, Dq, B, C)]
  /\ UNCHANGED <<lapack, call, heap, cmArgs, cmOut, eig, batch, cmd>>

Solve(e) ==
  /\ inst[e].made
  /\ call[e].status = "idle"
  /\ LET s == solver(inst[e])
     IN /\ call' = [call EXCEPT ![e] = s.ctl]
        /\ heap' = [heap EXCEPT ![FrameOf(e)] = s.mem]
  /\ UNCHANGED <<lapack, inst, cmArgs, cmOut, eig, batch, cmd>>

NoCM == [diag |-> <<>>, off |-> <<>>]

Pending == [exc |-> "pending", val |-> <<>>]

NoEig == [matrix |-> <<>>, given |-> <<>>, out |-> Pending]

\* no Batch object yet; size 0 stands for the attribute _size not being set
NoBatch ==
  [made |-> FALSE, exc |-> "none", Dq |-> <<>>, B |-> <<>>, C |-> <<>>,
   d_count |-> 0, slater |-> FALSE, size |-> 0, result |-> <<>>,
   given |-> <<>>, ncalc |-> 0, built |-> 0, msg |-> "", result_id |-> 0, nret |-> 0]

\* the list object Batch.__init__ binds to self.result
NewList == 1

\* no CMDmain object yet
NoCMD ==
  [made |-> FALSE, exc |-> "none", given |-> <<>>, Dq |-> 0, B |-> <<>>, C |-> <<>>,
   nroot |-> 0, d_count |-> 0, slater |-> FALSE, size |-> 0, shape |-> <<>>,
   Energy |-> <<>>, delta_B |-> <<>>, tenDq |-> <<>>, title |-> <<>>,
   cols |-> <<>>, ncalc |-> 0, ncut |-> 0, msg |-> "", cutexc |-> "none",
   file |-> <<>>]

Init ==
  /\ lapack \in Lapacks
  /\ inst = [e \in Evals |-> NoInst]
  /\ call = [e \in Evals |-> IdleCall]
  /\ heap = [f \in Evals |-> EmptyMem]
  /\ cmArgs = NoCM
  /\ cmOut = Pending
  /\ eig = NoEig
  /\ batch = NoBatch
  /\ cmd = NoCMD

\* two documented parameter sets, <<configuration, Dq, B, C>>: d6 at Dq = 0 with
\* B = 1065, C = 5120, and d3 at Dq = 2000 with the defaults of d3.__init__
Scenarios == {<<6, 0, 1065, 5120>>, <<3, 2000, 918, 4133>>}

Next ==
  \/ \E e \in Evals, d \in Configs, Dq \in 0..MaxDq, B \in 0..MaxB, C \in 0..MaxC :
       Construct(e, d, Dq, B, C)
  \/ \E e \in Evals, s \in Scenarios : Construct(e, s[1], s[2], s[3], s[4])
  \/ \E e \in Evals, Dq \in 0..MaxDq, B \in 0..MaxB, C \in 0..MaxC :
       Construct(e, LigandFieldTheory, Dq, B, C)
  \/ \E e \in Evals : Solve(e)

Spec == Init /\ [][Next]_vars

(***************************************************************************)
(* What the properties below read.                                          *)
(***************************************************************************)
Returned(e) == call[e].status = "returned"

Raised(e) == call[e].status = "raised"

\* the term each solver() first takes as ground state, and the block whose
\* lowest level the correction branch tests
Nominal(d) ==
  CASE d = 2 -> "3_T_1" [] d = 3 -> "4_A_2" [] d = 4 -> "5_E_1" [] d = 5 -> "6_A_1"
    [] d = 6 -> "5_T_2" [] d = 7 -> "4_T_1" [] d = 8 -> "3_A_2"

Candidate(d) ==
  CASE d = 4 -> "3_T_1" [] d = 5 -> "2_T_2" [] d = 6 -> "1_A_1" [] d = 7 -> "2_E"
    [] OTHER -> "none"

\* the candidate's lowest level referenced to the nominal ground state, as the
\* branch test reads it
PreCorrection(e, label) ==
  call[e].rawret[label][1] - call[e].rawret[Nominal(inst[e].d)][1]

Energies(e) ==
  {call[e].ret[l][i] : <<l, i>> \in
     UNION {{<<l, i>> : i \in 1..Len(call[e].ret[l])} : l \in DOMAIN call[e].ret}}

(***************************************************************************)
(* C1.  For each configuration the returned mapping holds a ground-state    *)
(* term whose first entry is 0: the nominal ground term (3_T_1[0] in d2,    *)
(* 4_A_2 in d3, 5_E_1 in d4, 6_A_1 in d5, 5_T_2 in d6, 4_T_1[0] in d7,     *)
(* 3_A_2 in d8) when the correction branch is not taken, and the candidate  *)
(* (3_T_1[0] in d4, 2_T_2[0] in d5, 1_A_1[0] in d6, 2_E[0] in d7) when it   *)
(* is.                                                                     *)
(***************************************************************************)
GroundStateReadsZero ==
  \A e \in Evals :
    Returned(e) =>
      LET d == inst[e].d
          ground == IF call[e].taken THEN Candidate(d) ELSE Nominal(d)
      IN /\ ground \in DOMAIN call[e].ret
         /\ call[e].ret[ground][1] = 0

\* a d4 evaluation whose ground state moved from 5_E_1 to the candidate 3_T_1
GroundStateMoved ==
  \E e \in Evals :
    /\ Returned(e) /\ inst[e].d = 4 /\ call[e].taken
    /\ call[e].ret["3_T_1"][1] = 0
    /\ call[e].ret["5_E_1"][1] > 0

(***************************************************************************)
(* C2.  The term solver() sets to zero is the lowest state of the returned  *)
(* mapping: no returned entry is negative; in particular in d6, when the    *)
(* branch is taken (pre-correction 1_A_1[0] <= ENERGY_TOLERANCE, values in  *)
(* (0, ENERGY_TOLERANCE] included), the returned 5_T_2 is still >= 0.       *)
(***************************************************************************)
NoNegativeEnergy ==
  \A e \in Evals : Returned(e) => \A x \in Energies(e) : x >= 0

(***************************************************************************)
(* C3.  One common shift: the difference between any two returned entries   *)
(* equals the difference of their raw energies, closed-form singleton       *)
(* terms and block eigenvalues alike, whether or not the branch is taken.   *)
(***************************************************************************)
CommonShift ==
  \A e \in Evals :
    Returned(e) =>
      LET ret == call[e].ret
          raw == call[e].rawret
      IN /\ DOMAIN ret = DOMAIN raw
         /\ \A l \in DOMAIN ret : Len(ret[l]) = Len(raw[l])
         /\ \E l0 \in DOMAIN ret :
              LET s == raw[l0][1] - ret[l0][1]
              IN \A l \in DOMAIN ret : \A i \in 1..Len(ret[l]) :
                   ret[l][i] = raw[l][i] - s

\* a d5 evaluation that took the branch with a candidate strictly below the
\* nominal ground state: two subtractions make up the shift
ShiftedTwice ==
  \E e \in Evals :
    /\ Returned(e) /\ inst[e].d = 5 /\ call[e].taken
    /\ PreCorrection(e, "2_T_2") < 0
    /\ call[e].ret["6_A_1"][1] > 0
    /\ Len(call[e].ret["2_T_2"]) = 10

(***************************************************************************)
(* C4.  The number of labels returned is fixed per configuration (7, 8, 12, *)
(* 11, 12, 8, 7 for d2..d8), and the label set is the same for all          *)
(* parameters and for both outcomes of the correction branch.               *)
(***************************************************************************)
LabelCount(d) ==
  CASE d = 2 -> 7 [] d = 3 -> 8 [] d = 4 -> 12 [] d = 5 -> 11
    [] d = 6 -> 12 [] d = 7 -> 8 [] d = 8 -> 7

FixedLabels ==
  /\ \A e \in Evals :
       Returned(e) => Cardinality(DOMAIN call[e].ret) = LabelCount(inst[e].d)
  /\ \A e1, e2 \in Evals :
       Returned(e1) /\ Returned(e2) /\ inst[e1].d = inst[e2].d
         => DOMAIN call[e1].ret = DOMAIN call[e2].ret

\* two points of a d6 sweep, the first without and the second with the branch
LabelsAcrossBranch ==
  /\ Returned(1) /\ Returned(2) /\ inst[1].d = 6
  /\ ~call[1].taken /\ call[2].taken
  /\ Cardinality(DOMAIN call[2].ret) = 12

(***************************************************************************)
(* C5.  The correction branch is taken exactly when the candidate's lowest  *)
(* level, referenced to the nominal ground state, is <= a tolerance; the    *)
(* tolerance is ENERGY_TOLERANCE only in d6 and 0 in d4, d5 and d7; d2, d3  *)
(* and d8 have no such branch.                                             *)
(***************************************************************************)
Tolerance(d) == IF d = 6 THEN ENERGY_TOLERANCE ELSE 0

BranchIffWithinTolerance ==
  \A e \in Evals :
    Returned(e) =>
      LET d == inst[e].d
      IN call[e].taken <=>
           /\ d \in {4, 5, 6, 7}
           /\ PreCorrection(e, Candidate(d)) <= Tolerance(d)

\* the same statement as the specification words it: the branch with tolerance
\* 0 in d4, d3 and d7 (in d3 the candidate is 2_E, as in its conjugate d7)
ClaimedCandidate(d) == IF d = 3 THEN "2_E" ELSE Candidate(d)

BranchIffAsClaimed ==
  \A e \in Evals :
    Returned(e) /\ inst[e].d \in {3, 4, 6, 7} =>
      (call[e].taken <=>
         PreCorrection(e, ClaimedCandidate(inst[e].d)) <= Tolerance(inst[e].d))

\* d6 takes the branch on a candidate above the nominal ground state, and a d4
\* sweep with the same parameters would not
ToleranceInEffect ==
  \E e \in Evals :
    /\ Returned(e) /\ inst[e].d = 6 /\ call[e].taken
    /\ PreCorrection(e, "1_A_1") > 0

(***************************************************************************)
(* C6.  No jump at the branch of d4 and d6: between the last point of a     *)
(* sweep before the branch is taken and the first point where it is taken,  *)
(* the extra shift the branch applies is no larger than the change of the   *)
(* raw energies it is computed from across that step, so the returned       *)
(* energies change by no more than the raw energies did.                    *)
(***************************************************************************)
Abs(x) == IF x < 0 THEN 0 - x ELSE x

NoJumpAtBranch ==
  (/\ Returned(1) /\ Returned(2)
   /\ inst[1].d \in {4, 6}
   /\ ~call[1].taken /\ call[2].taken)
    => LET cand == Candidate(inst[1].d)
           before == PreCorrection(1, cand)
           after == PreCorrection(2, cand)
       IN Abs(after) <= Abs(before - after)

IsCall(st) == st.op \in {"Call", "CallIdx", "CallSub"}

\* the block-builder calls of a program that raise, by position
Failing(prog) ==
  {k \in 1..Len(prog) : IsCall(prog[k]) /\ states(prog[k].block).exc # "none"}

CallsUpTo(prog, k) == Cardinality({m \in 1..k : IsCall(prog[m])})

NoPartialResult ==
  \A e \in Evals :
    Finished(e) /\ inst[e].d \in Configs =>
      LET prog == Program(inst[e].d, inst[e].Dq, inst[e].B, inst[e].C)
          bad == Failing(prog)
      IN IF bad # {}
         THEN LET first == CHOOSE k \in bad : \A m \in bad : k <= m
              IN /\ Raised(e)
                 /\ call[e].exc = states(prog[first].block).exc
                 /\ call[e].ncalls = CallsUpTo(prog, first)
                 /\ call[e].ret = NoMap
         ELSE /\ Returned(e)
              /\ call[e].exc = "none"
              /\ call[e].ncalls = CallsUpTo(prog, Len(prog))
              /\ \A l \in DOMAIN call[e].ret : Len(call[e].ret[l]) >= 1

\* a d4 call that built seven blocks and failed on the eighth
RaisedMidway ==
  \E e \in Evals :
    /\ Raised(e) /\ inst[e].d = 4
    /\ call[e].ncalls = 8
    /\ call[e].exc = "LinAlgError"

(***************************************************************************)
(* Concurrent evaluations: two instances of one configuration, made before  *)
(* either call starts; the statements of the two solver() calls interleave  *)
(* in any order (threads of one process: one statement at a time).          *)
(***************************************************************************)
Begin(e) ==
  /\ inst[e].made
  /\ call[e].status = "idle"
  /\ call' = [call EXCEPT ![e] = [IdleCall EXCEPT !.status = "running", !.ip = 1]]
  /\ UNCHANGED <<lapack, inst, heap, cmArgs, cmOut, eig, batch, cmd>>

Step(e) ==
  /\ call[e].status = "running"
  /\ LET prog == Program(inst[e].d, inst[e].Dq, inst[e].B, inst[e].C)
         s == Exec(prog[call[e].ip], call[e], heap[FrameOf(e)])
     IN /\ call' = [call EXCEPT ![e] = s.ctl]
        /\ heap' = [heap EXCEPT ![FrameOf(e)] = s.mem]
  /\ UNCHANGED <<lapack, inst, cmArgs, cmOut, eig, batch, cmd>>

InitSteps ==
  /\ lapack \in Lapacks
  /\ \E d \in Configs, Dq1 \in {0, MaxDq}, Dq2 \in {0, MaxDq} :
       inst = <<NewInst(d, Dq1, MaxB, 0), NewInst(d, Dq2, MaxB, 0)>>
  /\ call = [e \in Evals |-> IdleCall]
  /\ heap = [f \in Evals |-> EmptyMem]
  /\ cmArgs = NoCM
  /\ cmOut = Pending
  /\ eig = NoEig
  /\ batch = NoBatch
  /\ cmd = NoCMD

NextSteps ==
  \/ \E e \in Evals : Begin(e)
  \/ \E e \in Evals : Step(e)

SpecSteps == InitSteps /\ [][NextSteps]_vars

(***************************************************************************)
(* C8.  Independence under interleaving: whatever the order of the steps of *)
(* the two evaluations, each ends exactly as it ends when run alone, with    *)
(* the same mapping (or the same exception) and the same locals: no step of *)
(* one evaluation wrote what the other read.                                *)
(***************************************************************************)
IndependentEvaluations ==
  \A e \in Evals :
    Finished(e) =>
      LET alone == solver(inst[e])
      IN /\ call[e] = alone.ctl
         /\ heap[FrameOf(e)] = alone.mem

\* evaluation 1 returned, having taken the branch, while evaluation 2 of another
\* Dq was in the middle of its own updates
ReturnedWhileOtherRuns ==
  /\ Returned(1) /\ call[1].taken
  /\ call[2].status = "running" /\ call[2].ip > 3
  /\ inst[1].Dq # inst[2].Dq

(***************************************************************************)
(* construct_matrix on its own: the arguments are drawn at the start, the   *)
(* call builds the matrix.  The dict is given in insertion order, here row   *)
(* by row.                                                                  *)
(***************************************************************************)
DiagVals == {R(1), R(-2)}

Absent == [n |-> 0, rad |-> 0, den |-> 0]

OffVals == {R(3), Surd(1, 2, 1), Absent}

UpperPairs(N) == {p \in (0..N - 1) \X (0..N - 1) : p[1] < p[2]}

Grid(N) == [k \in 1..N * N |-> <<(k - 1) \div N, (k - 1) % N>>]

\* the dict {(i, j): f[i, j]} of the pairs f does not leave out
OffDict(N, f) ==
  LET present(p) == p \in DOMAIN f /\ f[p] # Absent
      keys == SelectSeq(Grid(N), present)
  IN [k \in 1..Len(keys) |-> <<keys[k][1], keys[k][2], f[keys[k]]>>]

BuildMatrix ==
  /\ cmOut = Pending
  /\ eig = NoEig
  /\ cmArgs # NoCM
  /\ cmOut' = construct_matrix(cmArgs.diag, cmArgs.off)
  /\ UNCHANGED <<lapack, inst, call, heap, cmArgs, eig, batch, cmd>>

\* indices also tried in keys: below -N, the negative -1, in range, and N
IndexVals(N) == {0 - N - 1, -1} \cup (0..N)

AnyItems(N) ==
  {<<i, j, v>> : i \in IndexVals(N), j \in IndexVals(N), v \in OffVals \ {Absent}}

\* dicts of at most two items with any keys; a dict holds a key once
AnyDicts(N) ==
  {<<>>} \cup {<<a>> : a \in AnyItems(N)}
    \cup {<<a, b>> : <<a, b>> \in
            {p \in AnyItems(N) \X AnyItems(N) :
               p[1][1] # p[2][1] \/ p[1][2] # p[2][2]}}

InitCM ==
  /\ lapack = [repel |-> 0, diverge |-> 0]
  /\ inst = [e \in Evals |-> NoInst]
  /\ call = [e \in Evals |-> IdleCall]
  /\ heap = [f \in Evals |-> EmptyMem]
  /\ \E N \in 1..MaxN :
       \/ \E d \in [1..N -> DiagVals], f \in [UpperPairs(N) -> OffVals] :
            cmArgs = [diag |-> d, off |-> OffDict(N, f)]
       \/ \E o \in AnyDicts(N) :
            cmArgs = [diag |-> [i \in 1..N |-> R(-2)], off |-> o]
  /\ cmOut = Pending
  /\ eig = NoEig
  /\ batch = NoBatch
  /\ cmd = NoCMD

NextCM == BuildMatrix

SpecCM == InitCM /\ [][NextCM]_vars

(***************************************************************************)
(* C10.  For N = len(diag) and keys (i, j) with 0 <= i < j < N,             *)
(* construct_matrix returns an N x N matrix M with M[i][i] = diag[i],       *)
(* M[i][j] = M[j][i] = off[(i, j)] for every key, and M[i][j] = 0 for every *)
(* i # j whose pair is not a key.                                          *)
(***************************************************************************)
KeysInUpperTriangle(off, N) ==
  /\ \A k \in 1..Len(off) : 0 <= off[k][1] /\ off[k][1] < off[k][2] /\ off[k][2] < N
  /\ \A k, m \in 1..Len(off) :
       off[k][1] = off[m][1] /\ off[k][2] = off[m][2] => k = m

ConstructMatrixContract ==
  LET diag == cmArgs.diag
      off == cmArgs.off
      N == Len(diag)
  IN (cmOut # Pending /\ KeysInUpperTriangle(off, N)) =>
       /\ cmOut.exc = "none"
       /\ LET M == cmOut.val
          IN /\ Len(M) = N
             /\ \A i \in 1..N : Len(M[i]) = N /\ M[i][i] = diag[i]
             /\ \A k \in 1..Len(off) :
                  /\ M[off[k][1] + 1][off[k][2] + 1] = off[k][3]
                  /\ M[off[k][2] + 1][off[k][1] + 1] = off[k][3]
             /\ \A i, j \in 1..N :
                  (/\ i # j
                   /\ ~\E k \in 1..Len(off) :
                        {off[k][1] + 1, off[k][2] + 1} = {i, j})
                    => M[i][j] = R(0)

\* a 3 x 3 matrix built from two keys: one pair mirrored, one pair left at zero
MatrixBuilt ==
  /\ cmOut.exc = "none"
  /\ Len(cmArgs.diag) = 3 /\ Len(cmArgs.off) = 2
  /\ cmOut.val[3][1] = Surd(1, 2, 1)
  /\ cmOut.val[1][2] = R(0)
  /\ cmOut.val[2][2] = R(-2)

(***************************************************************************)
(* C11.  Whatever mapping construct_matrix accepts, the matrix it returns   *)
(* is symmetric: M[i][j] = M[j][i] for all i, j; also when a pair is listed *)
(* in both orders with different values, and when a key has i = j.          *)
(***************************************************************************)
AlwaysSymmetric ==
  cmOut.exc = "none" =>
    \A i, j \in 1..Len(cmOut.val) : cmOut.val[i][j] = cmOut.val[j][i]

\* a pair listed in both orders with different values: the later value is in
\* both cells
BothOrdersAccepted ==
  /\ cmOut.exc = "none"
  /\ Len(cmArgs.off) = 2
  /\ cmArgs.off[1][1] = 0 /\ cmArgs.off[1][2] = 1
  /\ cmArgs.off[2][1] = 1 /\ cmArgs.off[2][2] = 0
  /\ cmArgs.off[1][3] # cmArgs.off[2][3]
  /\ cmOut.val[1][2] = cmArgs.off[2][3]
  /\ cmOut.val[2][1] = cmArgs.off[2][3]

(***************************************************************************)
(* C12.  Fail fast on every index outside 0..N-1: for a key (i, j) with i   *)
(* or j < 0 or >= N the call raises an index error and returns no matrix;   *)
(* a negative index such as -1 is rejected, not written to another cell.    *)
(***************************************************************************)
OutsideRows(off, N) ==
  \E k \in 1..Len(off) :
    \/ off[k][1] < 0 \/ off[k][1] >= N
    \/ off[k][2] < 0 \/ off[k][2] >= N

NegativeIndexRejected ==
  (cmOut # Pending /\ OutsideRows(cmArgs.off, Len(cmArgs.diag))) =>
    /\ cmOut.exc = "IndexError"
    /\ cmOut.val = <<>>

(***************************************************************************)
(* eigensolver on its own: the matrix is drawn at the start, the call       *)
(* computes its outcome.  Matrices tried: every 1x1 and 2x2 array over four  *)
(* values (symmetric or not), the diagonal matrices up to MaxN, and arrays   *)
(* with one column too many.                                                *)
(***************************************************************************)
EigVals == {R(-1), R(0), R(1), R(2)}

DiagonalOf(d) ==
  [i \in 1..Len(d) |-> [j \in 1..Len(d) |-> IF i = j THEN d[i] ELSE R(0)]]

EigInputs ==
  UNION {[1..N -> [1..N -> EigVals]] : N \in 1..2}
    \cup UNION {{DiagonalOf(d) : d \in [1..N -> EigVals]} : N \in 3..MaxN}
    \cup UNION {[1..N -> [1..N + 1 -> {R(1), R(2)}]] : N \in 1..2}

Eigen ==
  /\ eig.out = Pending
  /\ eig.matrix # <<>>
  /\ eig' = [eig EXCEPT !.out = eigensolver(eig.matrix)]
  /\ UNCHANGED <<lapack, inst, call, heap, cmArgs, cmOut, batch, cmd>>

InitEig ==
  /\ lapack \in Lapacks
  /\ inst = [e \in Evals |-> NoInst]
  /\ call = [e \in Evals |-> IdleCall]
  /\ heap = [f \in Evals |-> EmptyMem]
  /\ cmArgs = NoCM
  /\ cmOut = Pending
  /\ \E m \in EigInputs : eig = [matrix |-> m, given |-> m, out |-> Pending]
  /\ batch = NoBatch
  /\ cmd = NoCMD

NextEig == Eigen

SpecEig == InitEig /\ [][NextEig]_vars

(***************************************************************************)
(* C13.  For a real symmetric N x N matrix, eigensolver returns exactly N   *)
(* values in non-decreasing order that are the eigenvalues of the matrix: a *)
(* diagonal matrix gives its diagonal sorted, [[2,1],[1,2]] gives [1,3], a  *)
(* 2x2 matrix with integer eigenvalues gives the two roots of its           *)
(* characteristic polynomial; and the matrix passed is left as it was.      *)
(***************************************************************************)
IsSymmetric(m) ==
  /\ IsSquare(m)
  /\ \A i, j \in 1..Len(m) : m[i][j] = m[j][i]

IsSquareNumber(x) == x >= 0 /\ SqrtFloor(x) * SqrtFloor(x) = x

\* x^2 - (a + d) x + (a d - b^2) for the 2x2 matrix [[a, b], [b, d]] of integers
CharPoly2(m, x) ==
  x * x - (m[1][1].n + m[2][2].n) * x + (m[1][1].n * m[2][2].n - m[2][1].n * m[2][1].n)

IntegerSpectrum2(m) ==
  LET disc == (m[1][1].n - m[2][2].n) * (m[1][1].n - m[2][2].n)
                + 4 * m[2][1].n * m[2][1].n
  IN IsSquareNumber(disc) /\ (m[1][1].n + m[2][2].n + SqrtFloor(disc)) % 2 = 0

InvalidInputRejected ==
  (eig.out # Pending /\ ~IsSymmetric(eig.matrix)) =>
    /\ eig.out.exc = "ValueError"
    /\ eig.out.val = <<>>

IsScenario(e, s) ==
  inst[e].made /\ <<inst[e].d, inst[e].Dq, inst[e].B, inst[e].C>> = s

QuartetPairAboveGround ==
  \A e \in Evals :
    Returned(e) /\ IsScenario(e, <<3, 2000, 918, 4133>>) =>
      LET ret == call[e].ret
      IN /\ Cardinality(DOMAIN ret) = 8
         /\ ret["4_A_2"] = <<0>>
         /\ {l \in DOMAIN ret : Len(ret[l]) = 1} = {"4_A_2", "4_T_2", "2_A_1", "2_A_2"}
         /\ Len(ret["4_T_1"]) = 2
         /\ 0 < ret["4_T_1"][1] /\ ret["4_T_1"][1] <= ret["4_T_1"][2]

\* the statement as the specification has it: 4_T_1 is single-valued or reads 0
QuartetSingletonOrGround ==
  \A e \in Evals :
    Returned(e) /\ IsScenario(e, <<3, 2000, 918, 4133>>) =>
      LET ret == call[e].ret
      IN /\ Cardinality(DOMAIN ret) = 8
         /\ "4_T_1" \in DOMAIN ret
         /\ Len(ret["4_T_1"]) = 1 \/ ret["4_T_1"][1] = 0

StrongFieldSolved ==
  \E e \in Evals :
    /\ Returned(e) /\ IsScenario(e, <<3, 2000, 918, 4133>>)
    /\ call[e].ret["4_T_2"] = <<20000>>

(***************************************************************************)
(* The drivers: Batch (batch.py) and CMDmain (cmd.py), and the conversion   *)
(* tools.racah they call.  A float of the drivers is an exact fraction      *)
(* [n, d] in lowest terms with d > 0; d = 0 marks the result of a division  *)
(* by zero (inf or nan).                                                    *)
(***************************************************************************)
MaxCalls == 2

RECURSIVE GCD(_, _)
GCD(a, b) == IF b = 0 THEN a ELSE GCD(b, a % b)

Rat(n, d) ==
  IF n = 0 THEN [n |-> 0, d |-> 1]
  ELSE LET g == GCD(Abs(n), d) IN [n |-> n \div g, d |-> d \div g]

Whole(k) == Rat(k, 1)

RatAdd(p, q) == Rat(p.n * q.d + q.n * p.d, p.d * q.d)

RatSub(p, q) == Rat(p.n * q.d - q.n * p.d, p.d * q.d)

RatMul(p, q) == Rat(p.n * q.n, p.d * q.d)

\* p / q; numpy gives inf or nan, not an exception, for q = 0
RatDiv(p, q) ==
  IF q.n = 0 THEN [n |-> IF p.n > 0 THEN 1 ELSE IF p.n < 0 THEN -1 ELSE 0, d |-> 0]
  ELSE IF q.n > 0 THEN Rat(p.n * q.d, p.d * q.n)
  ELSE Rat(0 - p.n * q.d, p.d * (0 - q.n))

\* int(x): truncation toward zero
Trunc(q) == IF q.n >= 0 THEN q.n \div q.d ELSE 0 - ((0 - q.n) \div q.d)

\* variant with the sign of the F4 term of B slipped
racahPlus(F2, F4) ==
  LET eVcm == Rat(806554, 100)
      B == RatMul(eVcm, RatAdd(RatDiv(F2, Whole(49)),
                               RatMul(RatDiv(Whole(5), Whole(441)), F4)))
      C == RatMul(eVcm, RatMul(RatDiv(Whole(35), Whole(441)), F4))
  IN <<B, C>>

\* tools.racah on two floats, in the order the code computes
racah(F2, F4) ==
  LET eVcm == Rat(806554, 100)
      B == RatMul(eVcm, RatSub(RatDiv(F2, Whole(49)),
                               RatMul(RatDiv(Whole(5), Whole(441)), F4)))
      C == RatMul(eVcm, RatMul(RatDiv(Whole(35), Whole(441)), F4))
  IN <<B, C>>

\* tools.racah on two Python lists: its first operation, F2 / 49.0, is not
\* defined for a list and a float
racahOfLists(F2, F4) == Raise("TypeError")

\* np.linspace(start, stop, num) for num >= 0
linspace(start, stop, num) ==
  [i \in 1..num |->
     IF num = 1 THEN Whole(start)
     ELSE RatAdd(Whole(start), Rat((i - 1) * (stop - start), num - 1))]

\* variant with the sizes of the two smaller groups exchanged
SizeOfExchanged(d_count) ==
  IF d_count \in {4, 5, 6} THEN 42
  ELSE IF d_count \in {3, 7} THEN 10
  ELSE IF d_count \in {2, 8} THEN 19
  ELSE 0

\* the attribute _size both drivers set from d_count; 0: left unset
SizeOf(d_count) ==
  IF d_count \in {4, 5, 6} THEN 42
  ELSE IF d_count \in {3, 7} THEN 19
  ELSE IF d_count \in {2, 8} THEN 10
  ELSE 0

\* Batch.__init__: the object, or NoBatch with the exception raised
Batch__init__(Dq, B, C, d_count, slater) ==
  LET given == [Dq |-> Dq, B |-> B, C |-> C, d_count |-> d_count, slater |-> slater]
      failed(x) == [NoBatch EXCEPT !.exc = x, !.given = given]
  IN IF Len(Dq) # 3 \/ Len(B) # 3 \/ Len(C) # 3 THEN failed("KeyError")
     ELSE IF slater /\ racahOfLists(B, C).exc # "none" THEN failed(racahOfLists(B, C).exc)
     ELSE [NoBatch EXCEPT
             !.made = TRUE,
             !.given = given,
             !.Dq = linspace(Dq[1], Dq[2], Dq[3]),
             !.B = linspace(B[1], B[2], B[3]),
             !.C = linspace(C[1], C[2], C[3]),
             !.d_count = d_count,
             !.slater = slater,
             !.size = SizeOf(d_count),
             !.result_id = NewList]

\* variant with the loops over B and C exchanged
PointsBInner(self) ==
  LET nB == Len(self.B)
      nC == Len(self.C)
  IN [k \in 1..(Len(self.Dq) * nB * nC) |->
        << self.Dq[(k - 1) \div (nB * nC) + 1],
           self.B[((k - 1) % nB) + 1],
           self.C[(((k - 1) \div nB) % nC) + 1] >>]

\* the grid triples in the order of the three nested loops
Points(self) ==
  LET nB == Len(self.B)
      nC == Len(self.C)
  IN [k \in 1..(Len(self.Dq) * nB * nC) |->
        << self.Dq[(k - 1) \div (nB * nC) + 1],
           self.B[(((k - 1) \div nC) % nB) + 1],
           self.C[((k - 1) % nC) + 1] >>]

First(S) == CHOOSE x \in S : \A y \in S : x <= y

\* the sweep with self.result rebound to the records of this call
SweepRebinding(self, pts, outs) ==
  LET N == Len(pts)
      recs == [k \in 1..N |->
                 [d_count |-> self.d_count, Dq |-> pts[k][1], B |-> pts[k][2],
                  C |-> pts[k][3], states |-> outs[k].ret]]
  IN [self EXCEPT !.result = recs, !.result_id = @ + 1, !.ncalc = @ + 1,
                  !.nret = @ + 1, !.built = @ + N]

\* the loop of Batch.calculation over the outcomes outs[k] of the solver()
\* calls of the grid triples: one record per triple until a triple raises
Sweep(self, pts, outs) ==
  LET N == Len(pts)
      valid == self.d_count \in 2..8
      bad == IF valid THEN {k \in 1..N : outs[k].status = "raised"} ELSE 1..N
      done == IF bad = {} THEN N ELSE First(bad) - 1
      recs == [k \in 1..done |->
                 [d_count |-> self.d_count, Dq |-> pts[k][1], B |-> pts[k][2],
                  C |-> pts[k][3], states |-> outs[k].ret]]
  IN [self EXCEPT
        !.result = @ \o recs,
        !.ncalc = @ + 1,
        !.nret = @ + (IF bad = {} THEN 1 ELSE 0),
        !.built = @ + (IF ~valid THEN 0 ELSE IF bad = {} THEN N ELSE First(bad)),
        !.exc = IF bad = {} THEN "none"
                ELSE IF valid THEN outs[First(bad)].exc ELSE "ValueError",
        !.msg = IF bad # {} /\ ~valid THEN "not a correct value!" ELSE ""]

\* Batch.calculation.  Each solver() call is evaluated once: the outcomes are
\* bound as a finished sequence before the loop reads them.
calculation(self) ==
  LET pts == Points(self)
      N == Len(pts)
      made == IF self.d_count \in 2..8
              THEN SubSeq([k \in 1..N |->
                             solver(NewInst(self.d_count, pts[k][1].n, pts[k][2].n,
                                            pts[k][3].n)).ctl], 1, N)
              ELSE <<>>
  IN CHOOSE r \in {Sweep(self, p, outs) : p \in {SubSeq(pts, 1, N)}, outs \in {made}} : TRUE

\* CMDmain.__init__: the object, or NoCMD with the exception raised
CMDmain__init__(Dq, B, C, nroots, d_count, slater) ==
  LET given == [Dq |-> Dq, B |-> B, C |-> C, nroots |-> nroots,
                d_count |-> d_count, slater |-> slater]
      conv == IF slater THEN racah(Whole(B), Whole(C)) ELSE <<Whole(B), Whole(C)>>
      energy == linspace(0, Dq, nroots)
  IN IF SizeOf(d_count) = 0 THEN [NoCMD EXCEPT !.exc = "AttributeError", !.given = given]
     ELSE [NoCMD EXCEPT
             !.made = TRUE,
             !.given = given,
             !.Dq = Dq,
             !.B = conv[1],
             !.C = conv[2],
             !.nroot = nroots,
             !.d_count = d_count,
             !.slater = slater,
             !.size = SizeOf(d_count),
             !.shape = <<SizeOf(d_count) + 1, nroots>>,
             !.Energy = energy,
             !.delta_B = [i \in 1..nroots |-> RatDiv(energy[i], conv[1])],
             !.tenDq = [i \in 1..nroots |-> RatMul(energy[i], Whole(10))],
             !.title = <<d_count, Dq * 10, Trunc(conv[1]), Trunc(conv[2])>>]

\* electron counts tried: the seven configurations and one on either side
Counts == 1..9

\* step counts of a range; the grid values of these are whole numbers
StepCounts == 0..2

\* ranges [start, stop, steps] from some start values up to a stop value, and
\* one of the wrong length
Ranges(starts, stop) ==
  {<<a, stop, n>> : a \in starts, n \in StepCounts} \cup {<<0, stop>>}

return_result(self) == [id |-> self.result_id, items |-> self.result]

BatchInit(Dq, B, C, d_count, slater) ==
  /\ batch = NoBatch
  /\ cmd = NoCMD
  /\ batch' = Batch__init__(Dq, B, C, d_count, slater)
  /\ UNCHANGED <<lapack, inst, call, heap, cmArgs, cmOut, eig, cmd>>

BatchCalculation ==
  /\ batch.made
  /\ batch.ncalc < MaxCalls
  /\ batch' = calculation(batch)
  /\ UNCHANGED <<lapack, inst, call, heap, cmArgs, cmOut, eig, cmd>>

CMDInit(Dq, B, C, nroots, d_count, slater) ==
  /\ batch = NoBatch
  /\ cmd = NoCMD
  /\ cmd' = CMDmain__init__(Dq, B, C, nroots, d_count, slater)
  /\ UNCHANGED <<lapack, inst, call, heap, cmArgs, cmOut, eig, batch>>

InitDrv ==
  /\ lapack \in Lapacks
  /\ inst = [e \in Evals |-> NoInst]
  /\ call = [e \in Evals |-> IdleCall]
  /\ heap = [f \in Evals |-> EmptyMem]
  /\ cmArgs = NoCM
  /\ cmOut = Pending
  /\ eig = NoEig
  /\ batch = NoBatch
  /\ cmd = NoCMD

NextDrv ==
  \/ \E Dq \in Ranges(0..1, MaxDq), B \in Ranges({0}, MaxB), C \in Ranges({0}, MaxC),
        d_count \in Counts, slater \in BOOLEAN :
       BatchInit(Dq, B, C, d_count, slater)
  \/ BatchCalculation
  \/ \E Dq \in 0..MaxDq, B \in 0..MaxB, C \in 0..MaxC, nroots \in StepCounts,
        d_count \in Counts, slater \in BOOLEAN :
       CMDInit(Dq, B, C, nroots, d_count, slater)

SpecDrv == InitDrv /\ [][NextDrv]_vars

(***************************************************************************)
(* C18.  With slater = True the conversion is applied before any solver is  *)
(* constructed: a Batch given well-formed ranges is created, and every      *)
(* solver of its sweep receives B and C equal to racah of the F2 and F4     *)
(* values of that grid point (the grids being linspace of the supplied      *)
(* ranges); a CMDmain holds racah(B, C) of the two supplied scalars.        *)
(***************************************************************************)
WellFormed(given) == Len(given.Dq) = 3 /\ Len(given.B) = 3 /\ Len(given.C) = 3

GridOf(range) == linspace(range[1], range[2], range[3])

SlaterConvertedFirst ==
  /\ batch.given # <<>> /\ batch.given.slater /\ WellFormed(batch.given) =>
       /\ batch.made
       /\ \A k \in 1..Len(batch.result) :
            \E F2 \in {GridOf(batch.given.B)[i] : i \in 1..batch.given.B[3]},
               F4 \in {GridOf(batch.given.C)[i] : i \in 1..batch.given.C[3]} :
              <<batch.result[k].B, batch.result[k].C>> = racah(F2, F4)
  /\ cmd.made /\ cmd.slater =>
       <<cmd.B, cmd.C>> = racah(Whole(cmd.given.B), Whole(cmd.given.C))

(***************************************************************************)
(* C19.  racah(F2, F4) returns (B, C) with B = 8065.54 (F2/49 - 5 F4/441)   *)
(* and C = 8065.54 (35 F4/441); C does not depend on F2, and                *)
(* racah(0, 0) = (0, 0).                                                    *)
(***************************************************************************)
RacahFormula ==
  cmd.made /\ cmd.slater =>
    LET F2 == cmd.given.B
        F4 == cmd.given.C
    IN /\ cmd.B = Rat(806554 * (9 * F2 - 5 * F4), 44100)
       /\ cmd.C = Rat(806554 * 35 * F4, 44100)
       /\ \A G2 \in 0..MaxB : racah(Whole(G2), Whole(F4))[2] = cmd.C
       /\ F2 = 0 /\ F4 = 0 => cmd.B = Whole(0) /\ cmd.C = Whole(0)

\* a conversion whose B comes out negative: 9 F2 < 5 F4
RacahConverted ==
  /\ cmd.made /\ cmd.slater
  /\ cmd.given.B > 0 /\ cmd.given.C > 0
  /\ cmd.B.n < 0 /\ cmd.C.n > 0

(***************************************************************************)
(* C20.  A Batch whose d_count is not in 2..8 rejects it whatever the       *)
(* ranges: calculation() raises ValueError('not a correct value!'),         *)
(* constructs no solver and leaves result empty.                            *)
(***************************************************************************)
InvalidCountRejected ==
  batch.made /\ batch.d_count \notin 2..8 /\ batch.ncalc > 0 =>
    /\ batch.exc = "ValueError"
    /\ batch.msg = "not a correct value!"
    /\ batch.built = 0
    /\ batch.result = <<>>

(***************************************************************************)
(* The command-line driver after construction: CMDmain.calculation,         *)
(* subsplit_states, ci_cut and ts_print.  A dict is [keys, val]: its keys   *)
(* in insertion order and the value of each.                                *)
(***************************************************************************)
\* the keys of the items of a dict in insertion order: a repeated key keeps
\* its first place
KeysOf(items) ==
  LET firsts == {k \in 1..Len(items) : \A m \in 1..(k - 1) : items[m][1] # items[k][1]}
  IN [i \in 1..Cardinality(firsts) |->
        items[CHOOSE k \in firsts : Cardinality({m \in firsts : m <= k}) = i][1]]

\* and the value it ends with: the last one assigned
ValOf(items) ==
  [l \in {items[k][1] : k \in 1..Len(items)} |->
     items[Last({k \in 1..Len(items) : items[k][1] = l})][2]]

\* the mapping returned by solver() of configuration d, in the order of its
\* return statement
StatesOf(d, ret) ==
  LET prog == Program(d, 0, 0, 0)
  IN [keys |-> KeysOf(prog[Len(prog)].pairs), val |-> ret]

RECURSIVE Flat(_)
Flat(ss) == IF ss = <<>> THEN <<>> ELSE Head(ss) \o Flat(Tail(ss))

\* variant that numbers the split keys without the separator
subsplit_statesGlued(dict) ==
  LET items == Flat([k \in 1..Len(dict.keys) |->
                 LET key == dict.keys[k]
                     value == dict.val[key]
                 IN IF Len(value) > 1
                    THEN [i \in 1..Len(value) |->
                            <<key \o ToString(i - 1), <<value[i]>>>>]
                    ELSE << <<key, value>> >>])
  IN [keys |-> KeysOf(items), val |-> ValOf(items)]

\* CMDmain.subsplit_states: f"{key}_{i}" for every entry of a longer array
subsplit_states(dict) ==
  LET items == Flat([k \in 1..Len(dict.keys) |->
                 LET key == dict.keys[k]
                     value == dict.val[key]
                 IN IF Len(value) > 1
                    THEN [i \in 1..Len(value) |->
                            <<key \o "_" \o ToString(i - 1), <<value[i]>>>>]
                    ELSE << <<key, value>> >>])
  IN [keys |-> KeysOf(items), val |-> ValOf(items)]

\* the second half of CMDmain.calculation: the list of split rows becomes one
\* column per key of the first row and is appended to the data frame
Collect(self, rows) ==
  LET n == Len(rows)
      first == rows[1]
  IN IF n = 0 THEN [self EXCEPT !.ncalc = @ + 1, !.exc = "IndexError", !.msg = ""]
     ELSE IF \E k \in 1..n : \E j \in 1..Len(first.keys) :
               first.keys[j] \notin DOMAIN rows[k].val
     THEN [self EXCEPT !.ncalc = @ + 1, !.exc = "KeyError", !.msg = ""]
     ELSE [self EXCEPT
             !.ncalc = @ + 1,
             !.exc = "none",
             !.msg = "",
             !.cols = @ \o [j \in 1..Len(first.keys) |->
                              <<first.keys[j],
                                Flat([k \in 1..n |-> rows[k].val[first.keys[j]]])>>]]

\* the loop of CMDmain.calculation over the outcomes outs[k] of the solver()
\* calls, one per entry of the Energy column
Loop(self, outs) ==
  LET n == Len(self.Energy)
      valid == self.d_count \in 2..8
      bad == IF valid THEN {k \in 1..n : outs[k].status = "raised"} ELSE 1..n
  IN IF bad # {}
     THEN [self EXCEPT
             !.ncalc = @ + 1,
             !.exc = IF valid THEN outs[First(bad)].exc ELSE "ValueError",
             !.msg = IF valid THEN ""
                     ELSE "The number of unpaired electrons should be between 2 and 8."]
     ELSE CHOOSE r \in
            {Collect(self, rows) : rows \in
               {SubSeq([k \in 1..n |-> subsplit_states(StatesOf(self.d_count, outs[k].ret))],
                       1, n)}} : TRUE

\* CMDmain.calculation; B and C are whole numbers here
CMDmain_calculation(self) ==
  LET n == Len(self.Energy)
      made == IF self.d_count \in 2..8
              THEN SubSeq([k \in 1..n |->
                             solver(NewInst(self.d_count, self.Energy[k].n, self.B.n,
                                            self.C.n)).ctl], 1, n)
              ELSE <<>>
  IN CHOOSE r \in {Loop(self, outs) : outs \in {made}} : TRUE

\* the labels of the seven solvers in the order numpy sorts strings
SortedLabels ==
  << "1_A_1", "1_A_2", "1_E", "1_E_1", "1_T_1", "1_T_2", "1_T_3", "2_A_1", "2_A_2",
     "2_E", "2_T_1", "2_T_2", "3_A_1", "3_A_2", "3_E_1", "3_T_1", "3_T_2", "4_A_1",
     "4_A_2", "4_E", "4_T_1", "4_T_2", "5_E_1", "5_T_2", "6_A_1" >>

\* the empty string of an unfilled row sorts first
RankOf(state) ==
  IF state = "" THEN 0 ELSE CHOOSE i \in 1..Len(SortedLabels) : SortedLabels[i] = state

\* np.sort(cut, order="eV"): by eV, then by the other fields in their order
RowBefore(a, b) ==
  \/ a.eV < b.eV
  \/ a.eV = b.eV /\ RankOf(a.state) < RankOf(b.state)
  \/ a.eV = b.eV /\ a.state = b.state /\ a.cm < b.cm

\* CMDmain.ts_print: one row of the table per energy value, in the order of
\* the dict; eV is in units of 1e-4.  The file holds the sorted table.
ts_print(self, dict, dq_ci) ==
  LET entries == Flat([k \in 1..Len(dict.keys) |->
                   [i \in 1..Len(dict.val[dict.keys[k]]) |->
                      [state |-> dict.keys[k],
                       cm |-> dict.val[dict.keys[k]][i],
                       eV |-> (12 * dict.val[dict.keys[k]][i] + 5) \div 10]]])
      rows == self.size + 1
      cut == [c \in 1..rows |->
                IF c <= Len(entries) THEN entries[c] ELSE [state |-> "", cm |-> 0, eV |-> 0]]
  IN IF Len(entries) > rows THEN [self EXCEPT !.ncut = @ + 1, !.cutexc = "IndexError"]
     ELSE [self EXCEPT
             !.ncut = @ + 1,
             !.cutexc = "none",
             !.file = [title |-> <<self.d_count, dq_ci, Trunc(self.B), Trunc(self.C)>>,
                       written |-> Len(entries),
                       results |-> SortSeq(cut, RowBefore)]]

\* CMDmain.ci_cut; dq_ci is <<>> for the default None and <<x>> for a number x
\* that is a multiple of 10
ci_cut(self, dq_ci) ==
  IF self.d_count \notin 2..8 THEN [self EXCEPT !.ncut = @ + 1]
  ELSE IF dq_ci = <<>> THEN [self EXCEPT !.ncut = @ + 1, !.cutexc = "TypeError"]
  ELSE CHOOSE r \in
         {IF out.status = "raised" THEN [self EXCEPT !.ncut = @ + 1, !.cutexc = out.exc]
          ELSE ts_print(self, StatesOf(self.d_count, out.ret), dq_ci[1]) :
            out \in {solver(NewInst(self.d_count, dq_ci[1] \div 10, self.B.n,
                                    self.C.n)).ctl}} : TRUE

IsWhole(q) == q.d = 1

CMDCalculation ==
  /\ cmd.made
  /\ cmd.ncalc = 0
  /\ IsWhole(cmd.B) /\ IsWhole(cmd.C)
  /\ cmd' = CMDmain_calculation(cmd)
  /\ UNCHANGED <<lapack, inst, call, heap, cmArgs, cmOut, eig, batch>>

CMDCut(dq_ci) ==
  /\ cmd.made
  /\ cmd.ncut = 0
  /\ IsWhole(cmd.B) /\ IsWhole(cmd.C)
  /\ cmd' = ci_cut(cmd, dq_ci)
  /\ UNCHANGED <<lapack, inst, call, heap, cmArgs, cmOut, eig, batch>>

\* the command line: an object, then calculation() and ci_cut() on it
NextCLI ==
  \/ \E Dq \in 0..MaxDq, B \in {0, MaxB}, C \in {MaxC}, nroots \in StepCounts,
        d_count \in Counts, slater \in BOOLEAN :
       CMDInit(Dq, B, C, nroots, d_count, slater)
  \/ CMDCalculation
  \/ \E dq_ci \in {<<>>, <<0>>, <<10 * MaxDq>>} : CMDCut(dq_ci)

SpecCLI == InitDrv /\ [][NextCLI]_vars

(***************************************************************************)
(* C21.  A CMDmain asked for with d_count outside 2..8 is created, its      *)
(* calculation() raises ValueError('The number of unpaired electrons        *)
(* should be between 2 and 8.'), and its ci_cut() also signals an error.     *)
(***************************************************************************)
InvalidCountReported ==
  cmd.given # <<>> /\ cmd.given.d_count \notin 2..8 =>
    /\ cmd.made
    /\ cmd.ncalc > 0 =>
         /\ cmd.exc = "ValueError"
         /\ cmd.msg = "The number of unpaired electrons should be between 2 and 8."
    /\ cmd.ncut > 0 => cmd.cutexc # "none"

(***************************************************************************)
(* C22.  After one calculation() that returned, on a fresh Batch with       *)
(* d_count in 2..8, result holds exactly len(Dq)*len(B)*len(C) records, one *)
(* per grid triple, in nested-loop order (Dq outermost, C innermost); each  *)
(* record has exactly the keys d_count, Dq, B, C, states, and states is the *)
(* solver() output of configuration d_count for that record's (Dq, B, C).   *)
(***************************************************************************)
OneRecordPerTriple ==
  batch.made /\ batch.d_count \in 2..8 /\ batch.ncalc = 1 /\ batch.exc = "none" =>
    LET nDq == Len(batch.Dq)
        nB == Len(batch.B)
        nC == Len(batch.C)
    IN /\ Len(batch.result) = nDq * nB * nC
       /\ \A i \in 1..nDq, j \in 1..nB, l \in 1..nC :
            batch.result[((i - 1) * nB + (j - 1)) * nC + l] =
              [d_count |-> batch.d_count, Dq |-> batch.Dq[i], B |-> batch.B[j],
               C |-> batch.C[l],
               states |-> solver(NewInst(batch.d_count, batch.Dq[i].n, batch.B[j].n,
                                         batch.C[l].n)).ctl.ret]

\* a sweep over two values of each parameter
FullGridSwept ==
  /\ batch.made /\ batch.d_count \in 2..8 /\ batch.ncalc = 1 /\ batch.exc = "none"
  /\ Len(batch.Dq) = 2 /\ Len(batch.B) = 2 /\ Len(batch.C) = 2
  /\ Len(batch.result) = 8

(***************************************************************************)
(* C23.  solver() of the base class LigandFieldTheory always raises         *)
(* NotImplementedError('Subclasses should implement this method.') and      *)
(* returns nothing, for any (Dq, B, C).                                     *)
(***************************************************************************)
BaseSolverNotImplemented ==
  \A e \in Evals :
    inst[e].made /\ inst[e].d = LigandFieldTheory /\ Finished(e) =>
      /\ Raised(e)
      /\ call[e].exc = "NotImplementedError"
      /\ call[e].msg = "Subclasses should implement this method."
      /\ call[e].ret = NoMap
      /\ call[e].ncalls = 0

BaseSolverCalled ==
  \E e \in Evals :
    /\ inst[e].made /\ inst[e].d = LigandFieldTheory /\ Finished(e)
    /\ inst[e].Dq > 0 /\ inst[e].B > 0 /\ inst[e].C > 0

(***************************************************************************)
(* C24.  In the correction branch of d4, d5, d6 and d7 every in-place       *)
(* subtraction takes the candidate block's lowest entry and the candidate   *)
(* itself is updated last, so all terms are reduced by the same value c,    *)
(* the candidate's lowest entry on entering the branch: afterwards the      *)
(* candidate's lowest entry is 0 and the nominal ground term reads -c.      *)
(* When the branch is not taken no array changes after the first            *)
(* referencing.                                                            *)
(***************************************************************************)
\* the statements of the branch body of a program: those after its test
BranchBody(prog) ==
  LET at == CHOOSE k \in 1..Len(prog) : prog[k].op = "If"
  IN SubSeq(prog, at + 1, at + prog[at].body)

CandidateUpdatedLast(prog) ==
  LET at == CHOOSE k \in 1..Len(prog) : prog[k].op = "If"
      body == BranchBody(prog)
  IN /\ \A k \in 1..Len(body) : body[k].op = "ISub" /\ body[k].src = prog[at].src
     /\ \A k \in 1..Len(body) : (body[k].tgt = prog[at].src) <=> (k = Len(body))
     /\ \A k, m \in 1..Len(body) : body[k].tgt = body[m].tgt => k = m

SingleCorrection ==
  \A e \in Evals :
    Returned(e) /\ inst[e].d \in {4, 5, 6, 7} =>
      LET ret == call[e].ret
          raw == call[e].rawret
          gs == raw[Nominal(inst[e].d)][1]
          c == raw[Candidate(inst[e].d)][1] - gs
      IN /\ CandidateUpdatedLast(Program(inst[e].d, inst[e].Dq, inst[e].B, inst[e].C))
         /\ call[e].taken =>
              /\ \A l \in DOMAIN ret : \A i \in 1..Len(ret[l]) :
                   ret[l][i] = (raw[l][i] - gs) - c
              /\ ret[Candidate(inst[e].d)][1] = 0
              /\ ret[Nominal(inst[e].d)][1] = 0 - c
         /\ ~call[e].taken =>
              \A l \in DOMAIN ret : \A i \in 1..Len(ret[l]) : ret[l][i] = raw[l][i] - gs

\* a d7 evaluation whose candidate lay strictly below the nominal ground state
CorrectedBelowGround ==
  \E e \in Evals :
    /\ Returned(e) /\ inst[e].d = 7 /\ call[e].taken
    /\ call[e].ret["2_E"][1] = 0
    /\ call[e].ret["4_T_1"][1] > 0
    /\ call[e].ret["2_E"][4] > 0

(***************************************************************************)
(* C25.  The number of energy values solver() returns is the table size     *)
(* _size + 1 the command-line driver allocates: 11 for d2 and d8, 20 for d3 *)
(* and d7, 43 for d4, d5 and d6.  So ts_print writes each of its _size + 1  *)
(* rows exactly once: no index past the end, no row left unfilled.          *)
(***************************************************************************)
\* ts_print ran: ci_cut was called with a number and its solver() returned
Printed == cmd.made /\ cmd.ncut > 0 /\ cmd.cutexc \notin {"TypeError", "LinAlgError"}

TableExactlyFilled ==
  Printed =>
    /\ cmd.cutexc = "none"
    /\ cmd.size + 1 = (CASE cmd.d_count \in {2, 8} -> 11
                         [] cmd.d_count \in {3, 7} -> 20
                         [] cmd.d_count \in {4, 5, 6} -> 43)
    /\ cmd.file.written = cmd.size + 1
    /\ Len(cmd.file.results) = cmd.size + 1
    /\ \A r \in 1..Len(cmd.file.results) : cmd.file.results[r].state # ""

\* a d5 cut: 43 rows, the first of them the ground term at 0
CutPrinted ==
  /\ Printed /\ cmd.d_count = 5
  /\ cmd.file.written = 43
  /\ cmd.file.results[1].eV = 0

(***************************************************************************)
(* C26.  In every block builder that solver() calls, of all seven           *)
(* configurations, each off-diagonal key (i, j) satisfies 0 <= i < j < N    *)
(* for N diagonal elements and no unordered pair is given twice; so         *)
(* construct_matrix raises nothing and leaves the diagonal as given.        *)
(***************************************************************************)
BlocksOf(d, Dq, B, C) ==
  LET prog == Program(d, Dq, B, C)
  IN {prog[k].block : k \in {m \in 1..Len(prog) : IsCall(prog[m])}}

BlockWellFormed(block) ==
  LET N == Len(block.diag)
      m == construct_matrix(block.diag, block.off)
  IN /\ KeysInUpperTriangle(block.off, N)
     /\ m.exc = "none"
     /\ \A i \in 1..N : m.val[i][i] = block.diag[i]

OffDiagonalWellFormed ==
  \A e \in Evals :
    inst[e].made /\ inst[e].d \in Configs =>
      \A block \in BlocksOf(inst[e].d, inst[e].Dq, inst[e].B, inst[e].C) :
        BlockWellFormed(block)

\* a d5 instance: its largest block has ten diagonal elements and couplings
LargestBlockBuilt ==
  \E e \in Evals :
    /\ inst[e].made /\ inst[e].d = 5 /\ inst[e].B > 0
    /\ \E block \in BlocksOf(5, inst[e].Dq, inst[e].B, inst[e].C) :
         Len(block.diag) = 10 /\ Len(block.off) > 0

(***************************************************************************)
(* C27.  Electron-hole conjugation of the coefficient tables: for n in      *)
(* {2, 3, 4}, every block matrix and every closed-form singleton raw energy *)
(* of d(10-n) at (Dq, B, C) equals the one of the same name of d(n) at      *)
(* (-Dq, B, C): same sizes, same B and C coefficients, same off-diagonal    *)
(* entries, Dq coefficients of opposite sign.                               *)
(***************************************************************************)
\* the local names solver() returns
ReturnedNames(prog) ==
  LET pairs == prog[Len(prog)].pairs
  IN {pairs[k][2] : k \in 1..Len(pairs)}

\* the statement that first binds a name
BinderOf(prog, t) ==
  prog[CHOOSE k \in 1..Len(prog) :
         /\ prog[k].op \in {"Call", "CallIdx", "CallSub", "Lit", "LitSub", "Zero"}
         /\ prog[k].tgt = t
         /\ \A m \in 1..(k - 1) :
              ~(prog[m].op \in {"Call", "CallIdx", "CallSub", "Lit", "LitSub", "Zero"}
                /\ prog[m].tgt = t)]

\* what a returned term is computed from, before any reference energy is
\* subtracted: the matrix of its block, or its closed-form energy (for the
\* term set to zero, the closed form it is referred to)
RawTerm(prog, t) ==
  LET st == BinderOf(prog, t)
  IN IF IsCall(st)
       THEN [kind |-> "block", matrix |-> construct_matrix(st.block.diag, st.block.off).val]
       ELSE [kind |-> "singleton",
             energy |-> IF st.op = "Zero" THEN BinderOf(prog, "GS").x ELSE st.x]

RawTerms(d, Dq, B, C) ==
  LET prog == Program(d, Dq, B, C)
  IN [t \in ReturnedNames(prog) |-> RawTerm(prog, t)]

Conjugate(n, Dq, B, C) == RawTerms(10 - n, Dq, B, C) = RawTerms(n, 0 - Dq, B, C)

ElectronHoleConjugation ==
  \A e \in Evals :
    inst[e].made /\ inst[e].d \in {6, 7, 8} =>
      Conjugate(10 - inst[e].d, inst[e].Dq, inst[e].B, inst[e].C)

\* a d6 instance in a field, where the tables of d4 at the same Dq differ
ConjugatePairBuilt ==
  \E e \in Evals :
    /\ inst[e].made /\ inst[e].d = 6
    /\ inst[e].Dq > 0 /\ inst[e].B > 0 /\ inst[e].C > 0
    /\ RawTerms(6, inst[e].Dq, inst[e].B, inst[e].C)
         # RawTerms(4, inst[e].Dq, inst[e].B, inst[e].C)

(***************************************************************************)
(* C28.  Batch.result only grows: no operation of Batch clears, removes or  *)
(* reorders records.  After k calls of calculation() that returned, on a    *)
(* Batch with valid d_count, result has k * len(Dq) * len(B) * len(C)       *)
(* records, the records of earlier calls are unchanged and come first, and  *)
(* return_result is the same list object as result.                         *)
(***************************************************************************)
GridSize(self) == Len(self.Dq) * Len(self.B) * Len(self.C)

IsPrefix(a, b) == Len(a) <= Len(b) /\ SubSeq(b, 1, Len(a)) = a

RecordsPerCall ==
  batch.made =>
    /\ return_result(batch) = [id |-> NewList, items |-> batch.result]
    /\ batch.d_count \in 2..8 /\ batch.nret = batch.ncalc =>
         Len(batch.result) = batch.ncalc * GridSize(batch)

ResultOnlyGrows ==
  /\ []RecordsPerCall
  /\ [][batch.made =>
          /\ IsPrefix(batch.result, batch'.result)
          /\ return_result(batch').id = return_result(batch).id]_vars

\* two returned calls on a d3 batch over a 2 x 1 x 1 grid: four records, the
\* second call's after the first call's
TwoCallsAppended ==
  /\ batch.made /\ batch.d_count = 3 /\ batch.ncalc = 2 /\ batch.nret = 2
  /\ GridSize(batch) = 2
  /\ Len(batch.result) = 4
  /\ batch.result[3] = batch.result[1] /\ batch.result[1] # batch.result[2]

(***************************************************************************)
(* C29.  subsplit_states maps every label L whose array has n > 1 entries   *)
(* to the keys L_0 .. L_{n-1}, each holding the one-element array of that   *)
(* entry, and keeps a single-valued label with its array.  For the output   *)
(* of each of the seven solvers the keys never collide, so the result has   *)
(* as many keys as solver() returned energy values, each value once.        *)
(***************************************************************************)
\* the values of a dict, in the order of its keys
ValuesOf(dict) == Flat([k \in 1..Len(dict.keys) |-> dict.val[dict.keys[k]]])

SplitOf(out, split) ==
  /\ \A k \in 1..Len(out.keys) :
       LET L == out.keys[k]
           v == out.val[L]
       IN IF Len(v) > 1
            THEN \A i \in 0..(Len(v) - 1) :
                   /\ (L \o "_" \o ToString(i)) \in DOMAIN split.val
                   /\ split.val[L \o "_" \o ToString(i)] = <<v[i + 1]>>
            ELSE L \in DOMAIN split.val /\ split.val[L] = v
  /\ Len(split.keys) = Len(ValuesOf(out))
  /\ Cardinality(DOMAIN split.val) = Len(ValuesOf(out))
  /\ \A j, m \in 1..Len(split.keys) : split.keys[j] = split.keys[m] => j = m
  /\ ValuesOf(split) = ValuesOf(out)

SplitKeysExact ==
  cmd.made /\ cmd.ncalc > 0 /\ cmd.exc = "none" =>
    \A out \in {StatesOf(cmd.d_count,
                         solver(NewInst(cmd.d_count, cmd.Energy[1].n, cmd.B.n,
                                        cmd.C.n)).ctl.ret)} :
      \A split \in {subsplit_states(out)} :
        /\ SplitOf(out, split)
        /\ Len(split.keys) = cmd.size + 1
        /\ [j \in 1..Len(cmd.cols) |-> cmd.cols[j][1]] = split.keys

\* a d5 calculation: 43 columns, among them the ten of the 2_T_2 term and the
\* kept sextet label
SplitColumnsBuilt ==
  /\ cmd.made /\ cmd.ncalc > 0 /\ cmd.exc = "none" /\ cmd.d_count = 5
  /\ Len(cmd.cols) = 43
  /\ \E j, m, q \in 1..43 :
       /\ cmd.cols[j][1] = "2_T_2_0" /\ cmd.cols[m][1] = "2_T_2_9"
       /\ cmd.cols[q][1] = "6_A_1"

(***************************************************************************)
(* The historical engine, tanabe/matrices.py.  Its builders write each      *)
(* matrix out in full, np.array([[AA, AB], [BA, BB]]) with AB = BA; the     *)
(* tables below give the diagonal and the upper triangle of that matrix.    *)
(***************************************************************************)
legacy_d2_A_1_1(Dq, B, C) ==
  [ diag |-> <<
      R(-8*Dq + 10*B + 5*C),
      R(12*Dq + 8*B + 4*C)
    >>,
    off |-> <<
      <<0, 1, Surd(2*B + C, 6, 1)>>
    >> ]

legacy_d2_E_1(Dq, B, C) ==
  [ diag |-> <<
      R(12*Dq + B + 2*C),
      R(2*Dq + 2*C)
    >>,
    off |-> <<
      <<0, 1, Surd(-2*B, 3, 1)>>
    >> ]

legacy_d2_T_1_2(Dq, B, C) ==
  [ diag |-> <<
      R(-8*Dq + B + 2*C),
      R(2*Dq + 2*C)
    >>,
    off |-> <<
      <<0, 1, Surd(2*B, 3, 1)>>
    >> ]

legacy_d2_T_3_1(Dq, B, C) ==
  [ diag |-> <<
      R(-8*Dq - 5*B),
      R(2*Dq + 4*B)
    >>,
    off |-> <<
      <<0, 1, R(6*B)>>
    >> ]

legacy_d2_solver(Dq, B, C) ==
  << CallIdx("GS", legacy_d2_T_3_1(Dq, B, C), 0),
     LitSub("T_1_1", 2*Dq + 4*B + 2*C, "GS"),
     LitSub("T_3_2", 2*Dq - 8*B, "GS"),
     LitSub("A_3_2", 12*Dq - 8*B, "GS"),
     CallSub("A_1_1", legacy_d2_A_1_1(Dq, B, C), "GS"),
     CallSub("E_1", legacy_d2_E_1(Dq, B, C), "GS"),
     CallSub("T_1_2", legacy_d2_T_1_2(Dq, B, C), "GS"),
     CallSub("T_3_1", legacy_d2_T_3_1(Dq, B, C), "GS"),
     Return(<< <<"1_A_1", "A_1_1">>, <<"1_E", "E_1">>, <<"1_T_3", "T_1_2">>,
               <<"3_T_1", "T_3_1">>, <<"1_T_1", "T_1_1">>, <<"3_T_2", "T_3_2">>,
               <<"3_A_2", "A_3_2">> >>) >>

\* d2(Dq, B, C).solver() of the historical module
legacy_solver(self) ==
  RunFrom(legacy_d2_solver(self.Dq, self.B, self.C),
          [IdleCall EXCEPT !.status = "running", !.ip = 1], EmptyMem)

(***************************************************************************)
(* C30.  The historical module and the current module are duplicates of     *)
(* the same engine: each block builder builds the same matrix in both and   *)
(* both solver() methods return the same mapping.  Stated here for d2.      *)
(***************************************************************************)
LegacyDuplicatesCurrent ==
  \A e \in Evals :
    inst[e].made /\ inst[e].d = 2 =>
      \A prog \in {legacy_d2_solver(inst[e].Dq, inst[e].B, inst[e].C)} :
        /\ [t \in ReturnedNames(prog) |-> RawTerm(prog, t)]
             = RawTerms(2, inst[e].Dq, inst[e].B, inst[e].C)
        /\ legacy_solver(inst[e]).ctl.status = solver(inst[e]).ctl.status
        /\ legacy_solver(inst[e]).ctl.ret = solver(inst[e]).ctl.ret

\* the part of the statement that does hold for d2: same terms, and the same
\* matrices for every block but E_1
LegacyAgreesOutsideE ==
  \A e \in Evals :
    inst[e].made /\ inst[e].d = 2 =>
      \A prog \in {legacy_d2_solver(inst[e].Dq, inst[e].B, inst[e].C)} :
        /\ ReturnedNames(prog) = ReturnedNames(Program(2, 0, 0, 0))
        /\ \A t \in ReturnedNames(prog) \ {"E_1"} :
             RawTerm(prog, t) = RawTerms(2, inst[e].Dq, inst[e].B, inst[e].C)[t]

====
